---- MODULE Spec2Model ----
(***************************************************************************)
(* Speech I/O provider framework of xiaozhi-esp32-server: the transcription *)
(* backends of core/providers/asr, and the synthesis, language model and    *)
(* intent providers, as state machines.                                     *)
(*                                                                          *)
(*   SpecAliyun  - RemoteSigned backend (aliyun.py): token lifecycle and    *)
(*                 speech_to_text, two concurrent calls on one provider.    *)
(*   SpecWhisper - retrying local backend (whisper.py): the bounded retry   *)
(*                 loop of speech_to_text.                                  *)
(*   SpecWhisperX - RemoteMultipart backend (whisperx.py): decoding, the    *)
(*                 duration gate, the POST with its field fallback and the  *)
(*                 text gate of speech_to_text.                             *)
(*   SpecFraming - the audio container: PCM wrapped by _pcm16_to_wav or     *)
(*                 pcm_to_wav and read back by a backend's read_wave.       *)
(*   SpecStream  - RemoteSocketStream backends (shepra_streaming.py,        *)
(*                 shepra_streaming_online.py): websocket_asr; and          *)
(*                 whisper_ws.py: tcp_asr.                                  *)
(*   SpecStreamFair - SpecStream with the client's own steps taken fairly.  *)
(*   SpecSherpa  - LocalEngine backend (sherpa_onnx_local.py): two threads  *)
(*                 in speech_to_text and switch_model under model_lock.     *)
(*   SpecSherpaFair - SpecSherpa with fairly scheduled threads.             *)
(*   SpecQueue   - SynthesisStreamQueue: the music commands of              *)
(*                 play_music.py as tasks that put their reply on the       *)
(*                 queue, the stream of audio frames, and the playback      *)
(*                 consumer.                                                *)
(*   SpecFrames  - gemini.py: process_pcm_frames as a generator.            *)
(*   SpecGemini  - gemini.py: to_tts_single_stream, call by call.           *)
(*   SpecThink   - ollama.py: _stream_chunks on an output cut into chunks.  *)
(*   SpecOllama  - ollama.py: response, response_with_functions and         *)
(*                 _inject_no_think on a dialogue of the caller.            *)
(*   SpecIntent  - intent_llm.py: detect_intent and the intent cache.       *)
(***************************************************************************)
EXTENDS Integers, Sequences, FiniteSets, TLC

VARIABLES
    \* ---- aliyun.py: ASRProvider (RemoteSigned) ----
    keyed,          \* access_key_id and access_key_secret are both configured
    delete_audio_file, \* self.delete_audio_file
    tz,             \* host's local time zone: local wall clock = UTC + tz seconds
    now,            \* the wall clock, time.time()
    token,          \* self.token (NoToken for None, EmptyToken for '')
    expire_time,    \* self.expire_time: <<>> for None, <<v>> for the float v
    granted,        \* the ExpireTime of the reply that last set expire_time
    nextTok,        \* token endpoint: the next token id it issues
    running,        \* the call that holds the event loop (0: the loop is free)
    pc,             \* per call: position inside speech_to_text
    call,           \* per call: locals and the outcome of speech_to_text
    \* ---- whisper.py: ASRProvider (retrying local backend) ----
    w_delete_audio_file, \* self.delete_audio_file
    w_pc,           \* position inside speech_to_text
    retry_count,    \* local retry_count
    w_file_path,    \* local file_path: 0 for None, else the id of the saved file
    w_disk,         \* audio files present in output_dir
    w_log,          \* what each attempt of the running call ended with
    w_result,       \* what speech_to_text returned
    w_utterances,   \* utterances handled so far
    \* ---- whisperx.py: ASRProvider (RemoteMultipart) ----
    x_save_tmp_wav, \* self.save_tmp_wav
    x_delete_audio_file, \* self.delete_audio_file
    x_pc,           \* position inside speech_to_text
    x_input,        \* the arguments opus_data and audio_format
    x_pcm,          \* local pcm: the decoded chunks, in order
    x_tmp_path,     \* local tmp_path is set
    x_tmp,          \* the temp file of this call: "none", "written", "removed"
    x_posts,        \* the form field of every POST made, in order
    x_replies,      \* the answers to these POSTs, in order
    x_payload,      \* local payload
    x_result,       \* << >> while running, then <<outcome>>
    \* ---- the audio container ----
    f_pc,           \* "idle", "wrapped", "done"
    f_pcm,          \* the PCM bytes handed to the writer
    f_writer,       \* which function wrote the container, with which format
    f_wav,          \* the container bytes
    f_reader,       \* the backend whose read_wave read it
    f_read,         \* what read_wave returned
    f_accepted,     \* << >>, or <<samples>> handed to the recognizer
    f_result,       \* "pending", "decoded" (the recognizer's text), "empty"
    \* ---- shepra_streaming.py, shepra_streaming_online.py ----
    s_variant,      \* which module the provider is
    s_samples_per_message, \* self.samples_per_message
    s_pc,           \* position inside speech_to_text / websocket_asr
    s_n,            \* data.shape[0]: samples of the utterance
    s_start,        \* local start
    s_sent,         \* the messages sent on the connection, in order
    s_conn,         \* the connection: "none", "open", "closed"
    s_peer_closed,  \* the server has closed the connection
    s_recv,         \* receive_task: "none", "running", "finished", "raised"
    s_received,     \* the messages receive_results has taken, in order
    s_unread,       \* the messages that arrived after receive_results had raised
    s_last_message, \* local last_message of receive_results
    s_result,       \* "pending", then the text speech_to_text returned
    s_delete_audio_file, \* self.delete_audio_file
    s_utterances,   \* calls of speech_to_text so far
    s_file_path,    \* local file_path of speech_to_text: 0 for None, else the file
    s_disk,         \* the files save_audio_to_file wrote that are on the disk
    \* ---- sherpa_onnx_local.py ----
    sh_dirs,        \* the disk: what loading each model directory comes to
    sh_lock,        \* self.model_lock: 0, or the thread that holds it
    sh_model,       \* self.model: the directory the active handle was loaded from
    sh_tokens_path, \* self.tokens_path: the directory of the tokens file
    sh_current_model_dir, \* self.current_model_dir
    sh_pc,          \* per thread: position inside speech_to_text / switch_model
    sh_call,        \* per thread: the locals of its speech_to_text
    \* ---- play_music.py and the synthesis queue of the connection ----
    q_sentence_id,  \* conn.sentence_id
    q_intent_type,  \* conn.intent_type
    q_queue,        \* conn.tts.tts_text_queue
    q_enqueued,     \* every unit put on the queue, in the order of the puts
    q_delivered,    \* the units the playback consumer has taken, in order
    q_running,      \* the task the event loop is running, 0 when none
    q_pc,           \* per music task: position in play_music / play_local_music
    q_local,        \* per music task: locals text and music_path
    q_log,          \* per producer: the units it has put
    q_response,     \* per music command: the action of play_music's ActionResponse
    \* ---- gemini.py ----
    g_cfg,           \* self.sample_rate, self.channels, self.sample_width
    g_log,           \* per call of to_tts_single_stream: the text and what was logged
    g_pc,            \* position in process_pcm_frames
    g_max_repeat_time, \* local max_repeat_time at the end of the last call
    g_pcm,           \* pcm_data: the audio being framed
    g_i,             \* loop variable i of process_pcm_frames
    g_frames,        \* the frames yielded so far
    g_calls,         \* the calls of to_tts_single_stream so far
    g_queue,         \* self.tts_audio_queue: what has been put, in order
    \* ---- ollama.py ----
    o_pc,            \* position in _stream_chunks: "idle", "loop", "hung", "done"
    o_text,          \* the whole output of the model, as the chunks carry it
    o_chunks,        \* the chunks not yet read
    o_include_tools, \* the parameter include_tools of _stream_chunks
    o_is_active,     \* local is_active
    o_buffer,        \* local buffer
    o_yielded,       \* what was yielded so far, in order
    o_is_qwen3,      \* self.is_qwen3
    o_use_ollama_client, \* self.use_ollama_client: an api_key is configured
    o_heap,          \* the message dicts of the caller's dialogue, by position
    o_first,         \* the messages as the caller wrote them
    o_sent,          \* messages= of the last request, as the client serialized it
    o_calls,         \* calls of response and response_with_functions so far
    \* ---- intent_llm.py ----
    i_cache,         \* the INTENT cache: the entries [key, value]
    i_origin,        \* for each entry, the device and the text of the call that stored it
    i_returned,      \* the [key, value] an uncached call has returned
    i_last,          \* the last call of detect_intent and how it ended
    i_calls,         \* calls of detect_intent so far
    i_llm            \* self.llm is set (not None)

aliyunVars == <<keyed, delete_audio_file, tz, now, token, expire_time, granted, nextTok, running, pc, call>>
whisperVars == <<w_delete_audio_file, w_pc, retry_count, w_file_path, w_disk, w_log,
                 w_result, w_utterances>>
whisperxVars == <<x_save_tmp_wav, x_delete_audio_file, x_pc, x_input, x_pcm, x_tmp_path,
                  x_tmp, x_posts, x_replies, x_payload, x_result>>
framingVars == <<f_pc, f_pcm, f_writer, f_wav, f_reader, f_read, f_accepted, f_result>>
streamVars == <<s_variant, s_samples_per_message, s_pc, s_n, s_start, s_sent, s_conn,
                s_peer_closed, s_recv, s_received, s_unread, s_last_message, s_result,
                s_delete_audio_file, s_utterances, s_file_path, s_disk>>
sherpaVars == <<sh_dirs, sh_lock, sh_model, sh_tokens_path, sh_current_model_dir, sh_pc, sh_call>>
queueVars == <<q_sentence_id, q_intent_type, q_queue, q_enqueued, q_delivered, q_running,
               q_pc, q_local, q_log, q_response>>
geminiVars == <<g_cfg, g_log, g_pc, g_max_repeat_time, g_pcm, g_i, g_frames, g_calls, g_queue>>
ollamaVars == <<o_pc, o_text, o_chunks, o_include_tools, o_is_active, o_buffer, o_yielded, o_is_qwen3, o_use_ollama_client, o_heap, o_first, o_sent, o_calls>>
intentVars == <<i_cache, i_origin, i_returned, i_last, i_calls, i_llm>>
vars == <<aliyunVars, whisperVars, whisperxVars, framingVars, streamVars, sherpaVars, queueVars, geminiVars, ollamaVars, intentVars>>

\* A step of one provider leaves the other providers alone.
AliyunOnly == UNCHANGED <<whisperVars, whisperxVars, framingVars, streamVars, sherpaVars, queueVars, geminiVars, ollamaVars, intentVars>>
WhisperOnly == UNCHANGED <<aliyunVars, whisperxVars, framingVars, streamVars, sherpaVars, queueVars, geminiVars, ollamaVars, intentVars>>
WhisperXOnly == UNCHANGED <<aliyunVars, whisperVars, framingVars, streamVars, sherpaVars, queueVars, geminiVars, ollamaVars, intentVars>>
FramingOnly == UNCHANGED <<aliyunVars, whisperVars, whisperxVars, streamVars, sherpaVars, queueVars, geminiVars, ollamaVars, intentVars>>
StreamOnly == UNCHANGED <<aliyunVars, whisperVars, whisperxVars, framingVars, sherpaVars, queueVars, geminiVars, ollamaVars, intentVars>>
SherpaOnly == UNCHANGED <<aliyunVars, whisperVars, whisperxVars, framingVars, streamVars, queueVars, geminiVars, ollamaVars, intentVars>>
QueueOnly == UNCHANGED <<aliyunVars, whisperVars, whisperxVars, framingVars, streamVars, sherpaVars, geminiVars, ollamaVars, intentVars>>
GeminiOnly == UNCHANGED <<aliyunVars, whisperVars, whisperxVars, framingVars, streamVars, sherpaVars, queueVars, ollamaVars, intentVars>>
OllamaOnly == UNCHANGED <<aliyunVars, whisperVars, whisperxVars, framingVars, streamVars, sherpaVars, queueVars, geminiVars, intentVars>>
IntentOnly == UNCHANGED <<aliyunVars, whisperVars, whisperxVars, framingVars, streamVars, sherpaVars, queueVars, geminiVars, ollamaVars>>

(***************************************************************************)
(* Bounds of the model.                                                     *)
(***************************************************************************)
\* Token exchanges after the one of the constructor.
MaxExchanges == 2
MaxUtterances == 2
\* Opus packets in one utterance.
MaxPackets == 7
\* Bytes in a PCM buffer that is wrapped into a container.
MaxPcmBytes == 4
\* Samples in an utterance sent over a socket.
MaxSamples == 4
\* Messages of the server before its "Done!".
MaxServerMessages == 2
\* 2048-byte chunks of the file whisper_ws sends
MaxChunks == 2
\* Replies the connection begins: values of conn.sentence_id
MaxSentences == 2

\* Two speech_to_text calls in flight on one provider.
Calls == {1, 2}

(***************************************************************************)
(* aliyun.py                                                                *)
(***************************************************************************)
\* expire_time.timestamp() - 60
SafetyMargin == 60

NoToken == 0
\* The empty string as a token: falsy like None at line 142, but a value
\* http.client accepts in the X-NLS-Token header.
EmptyToken == -1
\* not self.token
FalsyToken(t) == t \in {NoToken, EmptyToken}
\* The first token id the endpoint issues (the constructor's refresh got it).
FirstToken == 1
\* config.get("token"): the pre-issued long-term token of static mode
StaticToken == 100

None == << >>

\* Host time zones (seconds east of UTC) and the instants (epoch seconds) a
\* token endpoint reply may name as ExpireTime. As for real expiry instants,
\* no instant lies within a zone offset of the epoch.
TzOffsets == {-3600, 0, 3600}
ExpiryInstants == {7260, 10860}
\* The readings of time.time() the model takes: the last instant at which
\* the expiry test is false and the first at which it is true, for every
\* instant it can switch at and every zone.
ClockReadings ==
    {t \in {T - o - SafetyMargin + d :
              T \in ExpiryInstants, o \in TzOffsets \cup {0}, d \in {0, 1}} : t >= 0}

\* ExpireTime of a reply: absent (None / 0), the decimal digits of the epoch
\* value T, the string YYYY-MM-DDTHH:MM:SSZ of the instant T, or anything else.
ExpireReplies ==
    {[k |-> "none", T |-> 0], [k |-> "bad", T |-> 0]}
    \cup [k : {"digits", "iso"}, T : ExpiryInstants]

NoExpire == [k |-> "none", T |-> 0]

\* A naive datetime is the number of seconds its fields read past
\* 1970-01-01 00:00:00, with no zone attached.
\* datetime.fromtimestamp(e): the local wall clock at epoch e.
fromtimestamp(e, zone) == e + zone
\* datetime.strptime(s, "%Y-%m-%dT%H:%M:%SZ"): the fields as written; the
\* literal Z is matched and dropped.
strptime(T) == T
\* naive.timestamp(): the naive fields are read as local time.
timestamp(naive, zone) == naive - zone

\* _refresh_token, lines 127-137: the stored expire_time for a reply, <<>> when
\* the conversion raises.
ParseExpire(exp, zone) ==
    CASE exp.k = "digits" -> <<timestamp(fromtimestamp(exp.T, zone), zone) - SafetyMargin>>
      [] exp.k = "iso"    -> <<timestamp(strptime(exp.T), zone) - SafetyMargin>>
      [] OTHER            -> None

\* Python truth value of self.expire_time: None and 0.0 are false.
Falsy(e) == e = None \/ e[1] = 0

\* Mutant: the long-term-token guard is missing, None compares as 0.
IsTokenExpired_NoGuard(e, t) == IF e = None THEN t > 0 ELSE t > e[1]

\* _is_token_expired
IsTokenExpired(e, t) == IF Falsy(e) THEN FALSE ELSE t > e[1]

\* Mutant: create_token is awaited, so the refresh gives up the event loop
\* between its two writes.
Suspends_InRefresh(p) == p \in {"idle", "await_resp", "done", "refresh_expire"}

\* The positions at which a call does not hold the event loop: not started,
\* returned, or inside the awaits of _send_request.
Suspends(p) == p \in {"idle", "await_resp", "done"}

\* The event loop runs one coroutine at a time, from one suspension point to
\* the next.
CanRun(c) == running = c \/ (running = 0 /\ Suspends(pc[c]))
Yield(c, p) == IF Suspends(p) THEN 0 ELSE c

NewCall ==
    [expired |-> FALSE, tokAtCheck |-> NoToken, refreshed |-> FALSE,
     expire_time_str |-> NoExpire, hdrTok |-> NoToken, sent |-> FALSE,
     posts |-> 0, status |-> "none",
     file_path |-> "None", result |-> "pending"]

Goto(c, p) ==
    /\ pc' = [pc EXCEPT ![c] = p]
    /\ running' = Yield(c, p)

\* The wall clock advances.
Tick ==
    /\ \E t \in ClockReadings : t > now /\ now' = t
    /\ UNCHANGED <<keyed, delete_audio_file, tz, token, expire_time, granted, nextTok, running, pc, call>>
    /\ AliyunOnly

\* speech_to_text is called: line 219, the expiry check.
CheckToken(c) ==
    /\ pc[c] = "idle"
    /\ CanRun(c)
    /\ LET e == IsTokenExpired(expire_time, now) IN
         /\ call' = [call EXCEPT ![c] = [NewCall EXCEPT !.expired = e, !.tokAtCheck = token]]
         /\ Goto(c, IF e THEN "refresh_token" ELSE "decode")
    /\ UNCHANGED <<keyed, delete_audio_file, tz, now, token, expire_time, granted, nextTok>>
    /\ AliyunOnly

Raise(c) ==
    /\ call' = [call EXCEPT ![c].result = "raised"]
    /\ Goto(c, "done")

\* _refresh_token, lines 120-125: the token exchange and the write of
\* self.token; static mode only clears expire_time.
RefreshToken(c) ==
    /\ pc[c] = "refresh_token"
    /\ CanRun(c)
    /\ IF keyed
       THEN \/ \* requests.get raises: nothing is written
               /\ Raise(c)
               /\ UNCHANGED <<token, nextTok, granted, expire_time>>
            \/ \* response not ok, or no "Token" in it: (None, None)
               /\ token' = NoToken
               /\ Raise(c)
               /\ UNCHANGED <<nextTok, granted, expire_time>>
            \/ \* a reply {Token: {Id, ExpireTime}}
               /\ nextTok - FirstToken <= MaxExchanges
               /\ \E id \in {NoToken, EmptyToken, nextTok}, exp \in ExpireReplies :
                    /\ token' = id
                    /\ nextTok' = nextTok + 1
                    /\ IF exp.k = "none"
                       THEN Raise(c)
                       ELSE /\ call' = [call EXCEPT ![c].expire_time_str = exp]
                            /\ Goto(c, "refresh_expire")
               /\ UNCHANGED <<granted, expire_time>>
       ELSE /\ expire_time' = None
            /\ IF FalsyToken(token)
               THEN Raise(c)
               ELSE /\ call' = [call EXCEPT ![c].refreshed = TRUE]
                    /\ Goto(c, "decode")
            /\ UNCHANGED <<token, nextTok, granted>>
    /\ UNCHANGED <<keyed, delete_audio_file, tz, now>>
    /\ AliyunOnly

\* Mutant: the errors of lines 125-143 are logged instead of raised.
RefreshExpireTime_Swallowed(exp, tok, old, zone) ==
    LET e == ParseExpire(exp, zone) IN
    IF e = None
    THEN [expire_time |-> old, written |-> FALSE, raised |-> FALSE]
    ELSE [expire_time |-> e, written |-> TRUE, raised |-> FALSE]

\* Mutant: the final check of self.token (lines 142-143) is missing.
RefreshExpireTime_TokenUnchecked(exp, tok, old, zone) ==
    LET e == ParseExpire(exp, zone) IN
    IF e = None
    THEN [expire_time |-> old, written |-> FALSE, raised |-> TRUE]
    ELSE [expire_time |-> e, written |-> TRUE, raised |-> FALSE]

\* What lines 127-143 leave behind for the reply exp when self.token is tok:
\* the stored expire_time, whether it was written, and whether the refresh
\* raised (a conversion error at line 137, a missing token at line 143).
RefreshExpireTime(exp, tok, old, zone) ==
    LET e == ParseExpire(exp, zone) IN
    IF e = None
    THEN [expire_time |-> old, written |-> FALSE, raised |-> TRUE]
    ELSE [expire_time |-> e, written |-> TRUE, raised |-> FalsyToken(tok)]

\* _refresh_token, lines 127-143: the write of self.expire_time.
RefreshExpire(c) ==
    /\ pc[c] = "refresh_expire"
    /\ CanRun(c)
    /\ LET exp == call[c].expire_time_str
           r == RefreshExpireTime(exp, token, expire_time, tz) IN
         /\ expire_time' = r.expire_time
         /\ granted' = IF r.written THEN exp ELSE granted
         /\ IF r.raised
            THEN Raise(c)
            ELSE /\ call' = [call EXCEPT ![c].refreshed = r.written /\ ~FalsyToken(token)]
                 /\ Goto(c, "decode")
    /\ UNCHANGED <<keyed, delete_audio_file, tz, now, token, nextTok>>
    /\ AliyunOnly

\* speech_to_text, lines 233-236: the file is saved only when it is kept.
SavedPath(del) == IF del THEN "None" ELSE "saved"

\* speech_to_text, lines 224-236, then _send_request up to its first await:
\* decode, save, build the headers from self.token and hand the request to
\* the executor.
Decode(c) ==
    /\ pc[c] = "decode"
    /\ CanRun(c)
    /\ \/ \* decode_opus or save_audio_to_file raises: caught at line 246
          /\ call' = [call EXCEPT ![c].status = "decode_exception",
                                  ![c].result = "empty"]
          /\ Goto(c, "done")
       \/ /\ call' = [call EXCEPT ![c].file_path = SavedPath(delete_audio_file),
                                  ![c].hdrTok = token, ![c].sent = TRUE,
                                  ![c].posts = call[c].posts + 1]
          /\ Goto(c, "await_resp")
    /\ UNCHANGED <<keyed, delete_audio_file, tz, now, token, expire_time, granted, nextTok>>
    /\ AliyunOnly

\* The answers the gateway can give to one POST.
Responses == {"text", "empty_result", "bad_status", "not_json", "exception"}

\* _send_request, lines 194-213: the value it returns for an answer (the
\* result field, which may be "", or None).
SendRequestResult(r) ==
    CASE r = "text"         -> "text"
      [] r = "empty_result" -> "empty"
      [] OTHER              -> "None"

\* speech_to_text, lines 241-244.
TextOrEmpty(t) == IF t = "text" THEN "text" ELSE "empty"

\* Mutant: a non-success status sends the request again.
Respond_RetryBadStatus(r) ==
    [result |-> TextOrEmpty(SendRequestResult(r)),
     next |-> IF r = "bad_status" THEN "decode" ELSE "done"]

\* speech_to_text, lines 239-248: what the call does with the answer to its
\* POST: it returns, whatever the answer was.
Respond(r) == [result |-> TextOrEmpty(SendRequestResult(r)), next |-> "done"]

\* _send_request resumes with the answer; speech_to_text returns.
Response(c) ==
    /\ pc[c] = "await_resp"
    /\ CanRun(c)
    /\ \E r \in Responses :
         \* a None token cannot be put in a header: the request raises;
         \* an empty one is sent as it is
         /\ call[c].hdrTok = NoToken => r = "exception"
         /\ call' = [call EXCEPT ![c].status = r,
                                 ![c].result = Respond(r).result]
         /\ Goto(c, Respond(r).next)
    /\ UNCHANGED <<keyed, delete_audio_file, tz, now, token, expire_time, granted, nextTok>>
    /\ AliyunOnly

\* The caller has taken the outcome; the next utterance may come.
Return(c) ==
    /\ pc[c] = "done"
    /\ pc' = [pc EXCEPT ![c] = "idle"]
    /\ call' = [call EXCEPT ![c] = NewCall]
    /\ UNCHANGED <<keyed, delete_audio_file, tz, now, token, expire_time, granted, nextTok, running>>
    /\ AliyunOnly

\* __init__, lines 107-113: keyed mode starts from one successful refresh
\* (a failing one raises out of the constructor), static mode from the
\* configured token.
AliyunInit ==
    /\ keyed \in BOOLEAN
    /\ delete_audio_file \in BOOLEAN
    /\ tz \in TzOffsets
    /\ now = 0
    /\ nextTok = FirstToken + 1
    /\ IF keyed
       THEN /\ token = FirstToken
            /\ granted \in {e \in ExpireReplies : e.k \in {"digits", "iso"}}
            /\ expire_time = ParseExpire(granted, tz)
       ELSE /\ token = StaticToken
            /\ granted = NoExpire
            /\ expire_time = None
    /\ running = 0
    /\ pc = [c \in Calls |-> "idle"]
    /\ call = [c \in Calls |-> NewCall]

AliyunParked ==
    /\ keyed = FALSE /\ delete_audio_file = FALSE /\ tz = 0 /\ now = 0 /\ nextTok = FirstToken + 1 /\ token = StaticToken
    /\ granted = NoExpire /\ expire_time = None /\ running = 0
    /\ pc = [c \in Calls |-> "idle"]
    /\ call = [c \in Calls |-> NewCall]

WhisperParked ==
    /\ w_delete_audio_file = FALSE /\ w_pc = "idle" /\ retry_count = 0
    /\ w_file_path = 0 /\ w_disk = {} /\ w_log = << >> /\ w_result = "pending"
    /\ w_utterances = 0
WhisperXParked ==
    /\ x_save_tmp_wav = FALSE /\ x_delete_audio_file = FALSE /\ x_pc = "idle"
    /\ x_input = [type |-> "none", fmt |-> "", pkts |-> << >>, n |-> 0]
    /\ x_pcm = << >> /\ x_tmp_path = FALSE /\ x_tmp = "none" /\ x_posts = << >>
    /\ x_replies = << >> /\ x_payload = [text |-> << >>, num_segments |-> << >>]
    /\ x_result = << >>

FramingParked ==
    /\ f_pc = "idle" /\ f_pcm = << >>
    /\ f_writer = [by |-> "none", fmt |-> [nchannels |-> 1, sampwidth |-> 2, framerate |-> 16000]]
    /\ f_wav = << >> /\ f_reader = "none"
    /\ f_read = [ok |-> FALSE, frames |-> << >>, samples |-> << >>, framerate |-> 0]
    /\ f_accepted = << >> /\ f_result = "pending"

StreamParked ==
    /\ s_variant = "shepra_streaming" /\ s_samples_per_message = 1
    /\ s_pc = "idle" /\ s_n = 0 /\ s_start = 0 /\ s_sent = << >> /\ s_conn = "none"
    /\ s_peer_closed = FALSE /\ s_recv = "none" /\ s_received = << >> /\ s_unread = << >>
    /\ s_last_message = "" /\ s_result = "pending"
    /\ s_delete_audio_file = FALSE /\ s_utterances = 0 /\ s_file_path = 0 /\ s_disk = {}

SherpaParked ==
    /\ sh_dirs = << >> /\ sh_lock = 0 /\ sh_model = "" /\ sh_tokens_path = ""
    /\ sh_current_model_dir = "" /\ sh_pc = << >> /\ sh_call = << >>

QueueParked ==
    /\ q_sentence_id = 0 /\ q_intent_type = "" /\ q_queue = << >> /\ q_enqueued = << >>
    /\ q_delivered = << >> /\ q_running = 0 /\ q_pc = << >> /\ q_local = << >>
    /\ q_log = << >> /\ q_response = << >>

GeminiParked ==
    /\ g_cfg = [sample_rate |-> 24000, channels |-> 1, sample_width |-> 2]
    /\ g_log = << >> /\ g_pc = "idle" /\ g_max_repeat_time = 0 /\ g_pcm = << >>
    /\ g_i = 0 /\ g_frames = << >> /\ g_calls = 0 /\ g_queue = << >>

OllamaParked ==
    /\ o_pc = "idle" /\ o_text = << >> /\ o_chunks = << >> /\ o_include_tools = FALSE /\ o_is_active = TRUE
    /\ o_buffer = << >> /\ o_yielded = << >> /\ o_is_qwen3 = FALSE /\ o_use_ollama_client = FALSE /\ o_heap = << >>
    /\ o_first = << >> /\ o_sent = << >> /\ o_calls = 0

IntentParked ==
    /\ i_cache = {} /\ i_origin = {} /\ i_returned = {} /\ i_calls = 0 /\ i_llm = FALSE
    /\ i_last = [device |-> << >>, text |-> << >>, key |-> << >>, hit |-> FALSE, llm_called |-> FALSE,
                  stored |-> FALSE, parse |-> "none", outcome |-> "none", value |-> ""]

(***************************************************************************)
(* whisper.py                                                               *)
(***************************************************************************)
MAX_RETRIES == 2

\* How one pass through the try block of speech_to_text can end: where, and
\* with what (an OSError, any other exception, or a return of "" or of text).
AttemptOutcomes ==
    {[at |-> "decode", cls |-> "Exception"],
     [at |-> "disk_check", cls |-> "OSError"],
     [at |-> "save", cls |-> "OSError"],
     [at |-> "duration", cls |-> "OSError"],
     [at |-> "duration", cls |-> "Exception"],
     [at |-> "duration", cls |-> "empty"],
     [at |-> "transcribe", cls |-> "OSError"],
     [at |-> "transcribe", cls |-> "Exception"],
     [at |-> "segments", cls |-> "empty"],
     [at |-> "text", cls |-> "empty"],
     [at |-> "text", cls |-> "text"]}

\* Line 105 has run: the outcome comes after save_audio_to_file returned.
FileSaved(o) == o.at \notin {"decode", "disk_check", "save"}

\* Lines 99-102: the disk space check is made only when files are kept.
Possible(o, del) == o.at = "disk_check" => ~del

\* Mutant: the bound is one too small.
RetryExhausted_OffByOne(n) == n >= MAX_RETRIES - 1

\* Line 139
RetryExhausted(n) == n >= MAX_RETRIES

\* Line 88
LoopCondition(n) == n < MAX_RETRIES

\* Mutant: every exception is retried like an OSError.
Handle_RetryAll(cls, rc) ==
    IF cls \in {"OSError", "Exception"}
    THEN [retry_count |-> rc + 1, returns |-> RetryExhausted(rc + 1), result |-> "empty"]
    ELSE [retry_count |-> rc, returns |-> TRUE, result |-> cls]

\* Lines 112-147: what the end of an attempt does to retry_count, whether
\* speech_to_text returns, and with what text.
Handle(cls, rc) ==
    CASE cls = "OSError" ->
           [retry_count |-> rc + 1, returns |-> RetryExhausted(rc + 1), result |-> "empty"]
      [] cls = "Exception" ->
           [retry_count |-> rc, returns |-> TRUE, result |-> "empty"]
      [] OTHER ->
           [retry_count |-> rc, returns |-> TRUE, result |-> cls]

\* Files save_audio_to_file has created so far are numbered from 1.
NewFile(log, utt) == (utt - 1) * MAX_RETRIES + Len(log) + 1

\* speech_to_text is called with an utterance: lines 85-86.
W_Call ==
    /\ w_pc = "idle"
    /\ w_utterances < MaxUtterances
    /\ w_utterances' = w_utterances + 1
    /\ w_pc' = "attempt"
    /\ retry_count' = 0
    /\ w_file_path' = 0
    /\ w_log' = << >>
    /\ w_result' = "pending"
    /\ UNCHANGED <<w_delete_audio_file, w_disk>>
    /\ WhisperOnly

\* One iteration of the while loop, lines 88-155: the try block, the except
\* clause its end selects, and the finally clause.
W_Attempt ==
    /\ w_pc = "attempt"
    /\ IF LoopCondition(retry_count)
       THEN \E o \in AttemptOutcomes :
              /\ Possible(o, w_delete_audio_file)
              /\ LET h == Handle(o.cls, retry_count)
                     f == IF FileSaved(o) THEN NewFile(w_log, w_utterances) ELSE w_file_path
                     written == IF FileSaved(o) THEN w_disk \cup {f} ELSE w_disk
                 IN /\ w_log' = Append(w_log, o)
                    /\ retry_count' = h.retry_count
                    /\ w_file_path' = f
                    /\ w_disk' = IF w_delete_audio_file /\ f # 0 THEN written \ {f} ELSE written
                    /\ w_result' = IF h.returns THEN h.result ELSE w_result
                    /\ w_pc' = IF h.returns THEN "done" ELSE "attempt"
       ELSE \* the loop ends without a return statement
            /\ w_result' = "None"
            /\ w_pc' = "done"
            /\ UNCHANGED <<retry_count, w_file_path, w_disk, w_log>>
    /\ UNCHANGED <<w_delete_audio_file, w_utterances>>
    /\ WhisperOnly

\* The caller has taken the outcome.
W_Return ==
    /\ w_pc = "done"
    /\ w_pc' = "idle"
    /\ UNCHANGED <<w_delete_audio_file, retry_count, w_file_path, w_disk, w_log,
                   w_result, w_utterances>>
    /\ WhisperOnly

\* __init__, lines 41-47
WhisperInit ==
    /\ w_delete_audio_file \in BOOLEAN
    /\ w_pc = "idle" /\ retry_count = 0 /\ w_file_path = 0 /\ w_disk = {}
    /\ w_log = << >> /\ w_result = "pending" /\ w_utterances = 0

NextWhisper == W_Call \/ W_Attempt \/ W_Return

InitWhisper == WhisperInit /\ AliyunParked /\ WhisperXParked /\ FramingParked /\ StreamParked /\ SherpaParked /\ QueueParked /\ GeminiParked /\ OllamaParked /\ IntentParked

SpecWhisper == InitWhisper /\ [][NextWhisper]_vars

NextAliyun ==
    \/ Tick
    \/ \E c \in Calls :
         \/ CheckToken(c)
         \/ RefreshToken(c)
         \/ RefreshExpire(c)
         \/ Decode(c)
         \/ Response(c)
         \/ Return(c)

InitAliyun == AliyunInit /\ WhisperParked /\ WhisperXParked /\ FramingParked /\ StreamParked /\ SherpaParked /\ QueueParked /\ GeminiParked /\ OllamaParked /\ IntentParked

SpecAliyun == InitAliyun /\ [][NextAliyun]_vars

(***************************************************************************)
(* whisperx.py                                                              *)
(***************************************************************************)
\* __init__, lines 45-47
sample_rate == 16000
channels == 1
bits_per_sample == 16

\* decoder.decode(pkt, 960): at most 960 samples of 16 bits per packet.
FrameBytes == 1920

\* A packet decodes ("good"), makes the decoder raise ("corrupt") or is
\* empty (b"" or None).
PacketKinds == {"good", "corrupt", "empty"}
PacketLists == UNION {[1..n -> PacketKinds] : n \in 0..MaxPackets}

\* Lengths of the raw PCM buffers handed in with audio_format "pcm".
PcmLengths == {0, 11199, 11200, 11201, 32000}

NoInput == [type |-> "none", fmt |-> "", pkts |-> << >>, n |-> 0]

\* What speech_to_text can be called with: a list of packets, a buffer of
\* raw PCM, a buffer holding one packet, or a value of another type.
Inputs ==
    {[type |-> "list", fmt |-> "opus", pkts |-> p, n |-> 0] : p \in PacketLists}
    \cup {[type |-> "bytes", fmt |-> "pcm", pkts |-> << >>, n |-> n] : n \in PcmLengths}
    \cup {[type |-> "bytes", fmt |-> "opus", pkts |-> <<k>>, n |-> 0] : k \in PacketKinds}
    \cup {[type |-> "other", fmt |-> "opus", pkts |-> << >>, n |-> 0]}

\* The PCM the decoder returns for the i-th packet of the utterance.
Frame(i) == [src |-> i, n |-> FrameBytes]

\* Mutant: a corrupt packet ends the loop.
RECURSIVE DecodePackets_StopAtCorrupt(_, _, _)
DecodePackets_StopAtCorrupt(pkts, i, pcm) ==
    IF i > Len(pkts) THEN pcm
    ELSE IF pkts[i] = "empty" THEN DecodePackets_StopAtCorrupt(pkts, i + 1, pcm)
    ELSE IF pkts[i] = "good"
         THEN DecodePackets_StopAtCorrupt(pkts, i + 1, pcm \o <<Frame(i)>>)
         ELSE pcm

\* Lines 82-90: the loop over the packets from the i-th on, pcm being what
\* was decoded before.
RECURSIVE DecodePackets(_, _, _)
DecodePackets(pkts, i, pcm) ==
    IF i > Len(pkts) THEN pcm
    ELSE IF pkts[i] = "empty" THEN DecodePackets(pkts, i + 1, pcm)
    ELSE IF pkts[i] = "good" THEN DecodePackets(pkts, i + 1, pcm \o <<Frame(i)>>)
    ELSE DecodePackets(pkts, i + 1, pcm)

\* Lines 80-101: pcm for an input that is a list or a buffer.
DecodeInput(in) ==
    IF in.type = "list" THEN DecodePackets(in.pkts, 1, << >>)
    ELSE IF in.fmt \in {"pcm", "pcm16", "wav"}
         THEN (IF in.n = 0 THEN << >> ELSE <<[src |-> 0, n |-> in.n]>>)
         ELSE (IF in.pkts[1] = "good" THEN <<Frame(1)>> ELSE << >>)

\* len(pcm)
RECURSIVE PcmLen(_)
PcmLen(pcm) == IF pcm = << >> THEN 0 ELSE Head(pcm).n + PcmLen(Tail(pcm))

\* _pcm_duration_sec: the quotient len / (sample_rate * 2), kept as a fraction.
PcmDurationSec(len) == [num |-> len, den |-> sample_rate * 2]

\* Mutant: a duration of exactly 0.35 s is rejected too.
TooShort_Inclusive(d) == d.num * 100 <= 35 * d.den

\* Line 108: dur_sec < 0.35
TooShort(d) == d.num * 100 < 35 * d.den

\* ---- strings: sequences of characters ----
Chars == {" ", "u", "U", "m"}
MaxTextLen == 3
Transcripts == UNION {[1..n -> Chars] : n \in 0..MaxTextLen}

\* str.lower() on one character
LowerChar(ch) ==
    CASE ch = "U" -> "u"
      [] ch = "M" -> "m"
      [] ch = "H" -> "h"
      [] OTHER -> ch

Lower(str) == [i \in 1..Len(str) |-> LowerChar(str[i])]

RECURSIVE LStrip(_)
LStrip(str) == IF str # << >> /\ Head(str) = " " THEN LStrip(Tail(str)) ELSE str

RECURSIVE RStrip(_)
RStrip(str) ==
    IF str # << >> /\ str[Len(str)] = " " THEN RStrip(SubSeq(str, 1, Len(str) - 1)) ELSE str

\* str.strip()
Strip(str) == RStrip(LStrip(str))

\* " ".join(texts)
RECURSIVE Join(_)
Join(texts) ==
    IF texts = << >> THEN << >>
    ELSE IF Len(texts) = 1 THEN texts[1]
    ELSE texts[1] \o <<" ">> \o Join(Tail(texts))

\* Line 255; a character outside ASCII is written by its code point.
fillers ==
    {<<"u1EDD">>, <<"u1EEB">>, <<"u1EEB", "m">>, <<"u", "h">>, <<"u", "m">>,
     <<"h", "u1EA3">>, <<"h", "u1EDF">>, <<"u00E0">>, <<"u1EA1">>,
     <<"v", "u00E2", "n", "g">>}

\* Mutant: the comparison with the fillers is case-sensitive.
IsTrivialText_CaseSensitive(text) ==
    IF text = << >> THEN TRUE
    ELSE LET t == Strip(text) IN
         IF Len(t) < 2 THEN TRUE ELSE t \in fillers

\* _is_trivial_text
IsTrivialText(text) ==
    IF text = << >> THEN TRUE
    ELSE LET t == Lower(Strip(text)) IN
         IF Len(t) < 2 THEN TRUE ELSE t \in fillers

\* ---- the remote endpoint ----
\* num_segments: << >> for None (or absent), else <<count>>
NumSegments == {<< >>, <<0>>, <<1>>}
SegmentTexts == {<< >>, <<"u", "m">>, <<"m", "u">>}
SegmentLists == UNION {[1..n -> SegmentTexts] : n \in 0..2}

NoData == [json |-> FALSE, text |-> << >>, num_segments |-> << >>,
           has_segments |-> FALSE, segments |-> << >>]

\* Bodies of a 200 answer: a JSON object with "text", "num_segments" and
\* perhaps "segments" (read only when the text is empty), or a body that is
\* not JSON.
Datas ==
    {[json |-> TRUE, text |-> t, num_segments |-> ns, has_segments |-> FALSE,
      segments |-> << >>] : t \in Transcripts, ns \in NumSegments}
    \cup {[json |-> TRUE, text |-> t, num_segments |-> ns, has_segments |-> TRUE,
           segments |-> sg] :
              t \in {u \in Transcripts : Strip(u) = << >>}, ns \in NumSegments,
              sg \in SegmentLists}
    \cup {[json |-> FALSE, text |-> t, num_segments |-> << >>, has_segments |-> FALSE,
           segments |-> << >>] : t \in Transcripts}

\* The phrases the lower-cased body of an error answer contains.
ErrorBodies == {{}, {"file"}, {"field required"}}

\* Status 0: session.post raised, there is no answer.
Replies ==
    {[status |-> 200, body |-> {}, data |-> d] : d \in Datas}
    \cup {[status |-> st, body |-> b, data |-> NoData] : st \in {422, 500}, b \in ErrorBodies}
    \cup {[status |-> 0, body |-> {}, data |-> NoData]}

EmptyPayload == [text |-> << >>, num_segments |-> << >>]

\* post(), lines 209-223: the payload of a 200 answer.
PostPayload(d) ==
    IF ~d.json THEN [text |-> Strip(d.text), num_segments |-> << >>]
    ELSE LET text == Strip(d.text) IN
         IF text = << >> /\ d.has_segments
         THEN [text |-> Strip(Join(d.segments)), num_segments |-> <<Len(d.segments)>>]
         ELSE [text |-> text, num_segments |-> d.num_segments]

\* _post_wav_with_fallback, lines 228-240: what follows the answer to the
\* POST with field "file".
AfterFile(reply) ==
    IF reply.status = 0 THEN "raise"
    ELSE IF reply.status = 200 THEN "return"
    ELSE IF reply.status = 422 /\ ("file" \in reply.body \/ "field required" \in reply.body)
         THEN "post_audio"
         ELSE "raise"

\* Lines 235-238: what follows the answer to the POST with field "audio".
AfterAudio(reply) == IF reply.status = 200 THEN "return" ELSE "raise"

\* Lines 138 and 153-157: the text speech_to_text returns for a payload.
FinalText(payload) ==
    LET text == Strip(payload.text) IN
    IF text = << >> \/ IsTrivialText(text) \/ payload.num_segments = <<0>>
    THEN << >>
    ELSE text

\* What speech_to_text returns: always a pair (text, None).
Returned(text) == <<[raised |-> FALSE, text |-> text, path |-> "None"]>>

\* Lines 145-150: the temp file after the cleanup.
Cleanup(tmp) ==
    IF x_save_tmp_wav /\ x_tmp_path /\ x_delete_audio_file /\ tmp = "written"
    THEN "removed"
    ELSE tmp

\* Lines 134-157: the end of speech_to_text once payload is known.
X_Finish(payload) ==
    /\ x_payload' = payload
    /\ x_tmp' = Cleanup(x_tmp)
    /\ x_result' = Returned(FinalText(payload))
    /\ x_pc' = "done"

\* speech_to_text up to its first await, lines 77-133 and 228: decoding, the
\* duration gate, the temp file, the POST with field "file".
X_Call ==
    /\ x_pc = "idle"
    /\ \E in \in Inputs, save \in {"ok", "makedirs_fails", "open_fails"} :
         /\ x_input' = in
         /\ ~x_save_tmp_wav => save = "ok"
         /\ IF in.type = "other"
            THEN /\ x_pcm' = << >>
                 /\ x_result' = Returned(<< >>)
                 /\ x_pc' = "done"
                 /\ UNCHANGED <<x_tmp_path, x_tmp, x_posts>>
            ELSE LET pcm == DecodeInput(in) IN
                 /\ x_pcm' = pcm
                 /\ IF TooShort(PcmDurationSec(PcmLen(pcm)))
                    THEN /\ x_result' = Returned(<< >>)
                         /\ x_pc' = "done"
                         /\ UNCHANGED <<x_tmp_path, x_tmp, x_posts>>
                    ELSE /\ x_tmp_path' = (x_save_tmp_wav /\ save # "makedirs_fails")
                         /\ x_tmp' = IF x_save_tmp_wav /\ save = "ok" THEN "written" ELSE "none"
                         /\ x_posts' = <<"file">>
                         /\ x_pc' = "post_file"
                         /\ UNCHANGED x_result
    /\ UNCHANGED <<x_save_tmp_wav, x_delete_audio_file, x_replies, x_payload>>
    /\ WhisperXOnly

\* The POST with field "file" is answered (or raises).
X_ReplyFile ==
    /\ x_pc = "post_file"
    /\ \E reply \in Replies :
         /\ x_replies' = Append(x_replies, reply)
         /\ LET next == AfterFile(reply) IN
            IF next = "post_audio"
            THEN /\ x_posts' = Append(x_posts, "audio")
                 /\ x_pc' = "post_audio"
                 /\ UNCHANGED <<x_payload, x_tmp, x_result>>
            ELSE /\ X_Finish(IF next = "return" THEN PostPayload(reply.data) ELSE EmptyPayload)
                 /\ UNCHANGED x_posts
    /\ UNCHANGED <<x_save_tmp_wav, x_delete_audio_file, x_input, x_pcm, x_tmp_path>>
    /\ WhisperXOnly

\* The POST with field "audio" is answered (or raises).
X_ReplyAudio ==
    /\ x_pc = "post_audio"
    /\ \E reply \in Replies :
         /\ x_replies' = Append(x_replies, reply)
         /\ X_Finish(IF AfterAudio(reply) = "return" THEN PostPayload(reply.data) ELSE EmptyPayload)
    /\ UNCHANGED <<x_save_tmp_wav, x_delete_audio_file, x_input, x_pcm, x_tmp_path, x_posts>>
    /\ WhisperXOnly

\* The caller has taken the outcome; the provider waits for the next utterance.
X_Return ==
    /\ x_pc = "done"
    /\ x_pc' = "idle"
    /\ x_input' = NoInput
    /\ x_pcm' = << >>
    /\ x_tmp_path' = FALSE
    /\ x_tmp' = "none"
    /\ x_posts' = << >>
    /\ x_replies' = << >>
    /\ x_payload' = EmptyPayload
    /\ x_result' = << >>
    /\ UNCHANGED <<x_save_tmp_wav, x_delete_audio_file>>
    /\ WhisperXOnly

\* __init__, lines 40-56
WhisperXInit ==
    /\ x_save_tmp_wav \in BOOLEAN
    /\ x_delete_audio_file \in BOOLEAN
    /\ x_pc = "idle" /\ x_input = NoInput /\ x_pcm = << >> /\ x_tmp_path = FALSE
    /\ x_tmp = "none" /\ x_posts = << >> /\ x_replies = << >>
    /\ x_payload = EmptyPayload /\ x_result = << >>

NextWhisperX == X_Call \/ X_ReplyFile \/ X_ReplyAudio \/ X_Return

InitWhisperX == WhisperXInit /\ AliyunParked /\ WhisperParked /\ FramingParked /\ StreamParked /\ SherpaParked /\ QueueParked /\ GeminiParked /\ OllamaParked /\ IntentParked

SpecWhisperX == InitWhisperX /\ [][NextWhisperX]_vars

(***************************************************************************)
(* The audio container: whisperx._pcm16_to_wav, gemini.pcm_to_wav and the   *)
(* read_wave of the backends that read a container back.                    *)
(***************************************************************************)
Bytes == {0, 1, 128, 255}
PcmBuffers == UNION {[1..n -> Bytes] : n \in 0..MaxPcmBytes}

\* b"RIFF", b"WAVE", b"fmt ", b"data"
TagRIFF == <<82, 73, 70, 70>>
TagWAVE == <<87, 65, 86, 69>>
TagFmt == <<102, 109, 116, 32>>
TagData == <<100, 97, 116, 97>>

\* struct.pack("<H", v) and struct.pack("<I", v)
PackH(v) == <<v % 256, (v \div 256) % 256>>
PackI(v) == <<v % 256, (v \div 256) % 256, (v \div 65536) % 256, (v \div 16777216) % 256>>

\* Mutant: the RIFF size counts the whole file.
Pcm16ToWav_RiffSizeWhole(pcm_bytes) ==
    LET byte_rate == sample_rate * channels * (bits_per_sample \div 8)
        block_align == channels * (bits_per_sample \div 8)
        data_size == Len(pcm_bytes)
    IN TagRIFF \o PackI(44 + data_size) \o TagWAVE
       \o TagFmt \o PackI(16) \o PackH(1) \o PackH(channels) \o PackI(sample_rate)
       \o PackI(byte_rate) \o PackH(block_align) \o PackH(bits_per_sample)
       \o TagData \o PackI(data_size) \o pcm_bytes

\* whisperx.py, _pcm16_to_wav
Pcm16ToWav(pcm_bytes) ==
    LET byte_rate == sample_rate * channels * (bits_per_sample \div 8)
        block_align == channels * (bits_per_sample \div 8)
        data_size == Len(pcm_bytes)
        riff_size == 36 + data_size
        header == TagRIFF \o PackI(riff_size) \o TagWAVE
        fmt_chunk == TagFmt \o PackI(16) \o PackH(1) \o PackH(channels) \o PackI(sample_rate)
                     \o PackI(byte_rate) \o PackH(block_align) \o PackH(bits_per_sample)
        data_chunk == TagData \o PackI(data_size)
    IN header \o fmt_chunk \o data_chunk \o pcm_bytes

\* The format a container is written with: channels, bytes per sample, rate.
PipelineFormat == [nchannels |-> 1, sampwidth |-> 2, framerate |-> 16000]
Formats == [nchannels : {1, 2}, sampwidth : {1, 2}, framerate : {16000, 24000}]

\* gemini.py, pcm_to_wav: the wave module writes the header for the channels,
\* sample width and rate that were set, then the frames as given.
PcmToWav(pcm_bytes, f) ==
    TagRIFF \o PackI(36 + Len(pcm_bytes)) \o TagWAVE
    \o TagFmt \o PackI(16) \o PackH(1) \o PackH(f.nchannels) \o PackI(f.framerate)
    \o PackI(f.nchannels * f.framerate * f.sampwidth) \o PackH(f.nchannels * f.sampwidth)
    \o PackH(f.sampwidth * 8)
    \o TagData \o PackI(Len(pcm_bytes)) \o pcm_bytes

Writers ==
    {[by |-> "whisperx", fmt |-> PipelineFormat]} \cup {[by |-> "gemini", fmt |-> f] : f \in Formats}

\* Little-endian fields of a container, 1-based offset.
UnpackH(b, at) == b[at] + 256 * b[at + 1]
UnpackI(b, at) == b[at] + 256 * b[at + 1] + 65536 * b[at + 2] + 16777216 * b[at + 3]

\* wave.open(wave_filename): the header fields and the data chunk.
WaveOpen(wav) ==
    IF \/ Len(wav) < 44
       \/ SubSeq(wav, 1, 4) # TagRIFF \/ SubSeq(wav, 9, 12) # TagWAVE
       \/ SubSeq(wav, 13, 16) # TagFmt \/ SubSeq(wav, 37, 40) # TagData
       \/ UnpackH(wav, 21) # 1
    THEN [ok |-> FALSE, nchannels |-> 0, sampwidth |-> 0, framerate |-> 0, nframes |-> 0,
          data |-> << >>]
    ELSE LET nch == UnpackH(wav, 23)
             width == (UnpackH(wav, 35) + 7) \div 8
             size == UnpackI(wav, 41)
             last == IF 44 + size < Len(wav) THEN 44 + size ELSE Len(wav)
         IN [ok |-> nch > 0 /\ width > 0, nchannels |-> nch, sampwidth |-> width,
             framerate |-> UnpackI(wav, 25),
             nframes |-> IF nch > 0 /\ width > 0 THEN size \div (nch * width) ELSE 0,
             data |-> SubSeq(wav, 45, last)]

\* f.readframes(n)
ReadFrames(w, n) ==
    LET want == n * w.nchannels * w.sampwidth IN
    SubSeq(w.data, 1, IF want < Len(w.data) THEN want ELSE Len(w.data))

\* Mutant: the samples are read as unsigned.
Int16_Unsigned(lo, hi) == lo + 256 * hi

\* np.frombuffer(samples, dtype=np.int16): one little-endian signed sample.
Int16(lo, hi) == LET v == lo + 256 * hi IN IF v >= 32768 THEN v - 65536 ELSE v

\* samples_int16.astype(np.float32) / 32768, which is exact: a sample is kept
\* as its numerator over 32768.
FromBuffer(frames) == [i \in 1..(Len(frames) \div 2) |-> Int16(frames[2 * i - 1], frames[2 * i])]

Readers == {"sherpa_onnx_local", "shepra_streaming", "whisper"}
\* The backends whose speech_to_text calls its read_wave; whisper.py defines
\* read_wave and hands the file path to the model instead (line 116).
Unwrappers == {"sherpa_onnx_local", "shepra_streaming"}

\* Mutant: the sample width is not checked.
FormatAccepted_ChannelsOnly(reader, w) ==
    /\ reader = "shepra_streaming" => w.framerate = 16000
    /\ w.nchannels = 1

\* The assert statements of read_wave.
FormatAccepted(reader, w) ==
    /\ reader = "shepra_streaming" => w.framerate = 16000
    /\ w.nchannels = 1
    /\ w.sampwidth = 2

NoRead == [ok |-> FALSE, frames |-> << >>, samples |-> << >>, framerate |-> 0]

\* read_wave of the given backend
ReadWave(reader, wav) ==
    LET w == WaveOpen(wav) IN
    IF ~w.ok \/ ~FormatAccepted(reader, w) THEN NoRead
    ELSE LET frames == ReadFrames(w, w.nframes) IN
         [ok |-> TRUE, frames |-> frames, samples |-> FromBuffer(frames),
          framerate |-> w.framerate]

\* A PCM buffer is wrapped into a container.
F_Wrap ==
    /\ f_pc = "idle"
    /\ \E pcm \in PcmBuffers, w \in Writers :
         /\ f_pcm' = pcm
         /\ f_writer' = w
         /\ f_wav' = IF w.by = "whisperx" THEN Pcm16ToWav(pcm) ELSE PcmToWav(pcm, w.fmt)
    /\ f_pc' = "wrapped"
    /\ UNCHANGED <<f_reader, f_read, f_accepted, f_result>>
    /\ FramingOnly

\* A backend reads the container and hands the samples to its recognizer
\* (sherpa_onnx_local.py 213-218, shepra_streaming.py 38); a failing
\* read_wave ends the utterance with empty text (231-233, 94-96).
F_Unwrap ==
    /\ f_pc = "wrapped"
    /\ \E reader \in Unwrappers :
         LET r == ReadWave(reader, f_wav) IN
         /\ f_reader' = reader
         /\ f_read' = r
         /\ f_accepted' = IF r.ok THEN <<r.samples>> ELSE << >>
         /\ f_result' = IF r.ok THEN "decoded" ELSE "empty"
    /\ f_pc' = "done"
    /\ UNCHANGED <<f_pcm, f_writer, f_wav>>
    /\ FramingOnly

\* read_wave of whisper.py applied to the container: the function alone, no
\* speech_to_text around it, so nothing is accepted and no text returned.
F_ReadWave ==
    /\ f_pc = "wrapped"
    /\ f_reader' = "whisper"
    /\ f_read' = ReadWave("whisper", f_wav)
    /\ f_pc' = "done"
    /\ UNCHANGED <<f_pcm, f_writer, f_wav, f_accepted, f_result>>
    /\ FramingOnly

\* The call has returned; the provider takes the next utterance.
F_Return ==
    /\ f_pc = "done"
    /\ f_pc' = "idle"
    /\ f_pcm' = << >> /\ f_writer' = [by |-> "none", fmt |-> PipelineFormat]
    /\ f_wav' = << >> /\ f_reader' = "none" /\ f_read' = NoRead
    /\ f_accepted' = << >> /\ f_result' = "pending"
    /\ FramingOnly

NextFraming == F_Wrap \/ F_Unwrap \/ F_ReadWave \/ F_Return

InitFraming == FramingParked /\ AliyunParked /\ WhisperParked /\ WhisperXParked /\ StreamParked /\ SherpaParked /\ QueueParked /\ GeminiParked /\ OllamaParked /\ IntentParked

SpecFraming == InitFraming /\ [][NextFraming]_vars

(***************************************************************************)
(* shepra_streaming.py and shepra_streaming_online.py: websocket_asr        *)
(***************************************************************************)
\* The two variants of the socket-stream backend.
Variants == {"shepra_streaming", "shepra_streaming_online"}

\* Values of samples_per_message in the configuration.
SamplesPerMessage == {1, 2, 3}

\* What the server sends before its "Done!": JSON with a "text", or text
\* that is not JSON.
ServerMessages == {"t1", "t2", "raw"}
IsJson(m) == m \in {"t1", "t2"}

Min(a, b) == IF a < b THEN a ELSE b

\* Mutant: the samples counted as 16-bit ones.
NBytes_Int16(n) == 2 * n

\* data.nbytes of n float32 samples
NBytes(n) == 4 * n

\* shepra_streaming.py 44-47: sample_rate and total_bytes, 4 bytes each
Header(n) == <<[sample_rate |-> 16000, total_bytes |-> NBytes(n)]>>

\* A binary message: the header if any, then the samples data[from:to].
Binary(hdr, from, to) == [kind |-> "binary", header |-> hdr, from |-> from, to |-> to]
\* The text message "Done"
Done == [kind |-> "Done", header |-> << >>, from |-> 0, to |-> 0]

\* The value of start when the loop is entered: shepra_streaming.py 66-68 has
\* sent chunk0 = data[:samples_per_message] with the header,
\* shepra_streaming_online.py 55 has sent nothing.
InitialStart(variant, spm) == IF variant = "shepra_streaming" THEN spm ELSE 0

\* What is sent before the loop.
FirstMessages(variant, spm, n) ==
    IF variant = "shepra_streaming" THEN <<Binary(Header(n), 0, Min(spm, n))>> ELSE << >>

\* The end of websocket_asr: shepra_streaming.py 82-85 returns the "text" of a
\* JSON message and any other message as it is; shepra_streaming_online.py
\* 64-65 raises on one that is not JSON, which speech_to_text turns into "".
FinalResult(variant, recv, last) ==
    IF recv = "raised" THEN ""
    ELSE IF last = "" THEN ""
    ELSE IF IsJson(last) THEN last
    ELSE IF variant = "shepra_streaming" THEN last ELSE ""

\* Mutant: leaving the block leaves the connection as it is.
AExit_Leak(conn) == conn

\* Leaving the async with block of websockets.connect (shepra_streaming*) or
\* the with block of socket.socket (whisper_ws), by return or by an exception
\* (CancelledError included), closes the connection.
AExit(conn) == IF conn = "open" THEN "closed" ELSE conn

\* speech_to_text after save_audio_to_file has returned the path wav:
\* shepra_streaming.py 91 and whisper_ws.py 84 assign file_path = wav_path,
\* shepra_streaming_online.py has no such line and file_path stays None.
FilePathAfterSave(variant, wav) == IF variant = "shepra_streaming_online" THEN 0 ELSE wav

\* The finally clause of speech_to_text: with delete_audio_file set the file
\* that file_path names is removed.
Finally(del, file_path, disk) == IF del /\ file_path # 0 THEN disk \ {file_path} ELSE disk

\* save_audio_to_file writes the file of this utterance, unless decode_opus or
\* the write raises.
Save(saved, variant, utt, disk) ==
    [file_path |-> IF saved THEN FilePathAfterSave(variant, utt) ELSE 0,
     disk |-> IF saved THEN disk \cup {utt} ELSE disk]

\* speech_to_text up to its first await: the file is saved, read_wave reads
\* it, and the call waits in websockets.connect. A save or a read that raises
\* ends the call with "".
S_Call ==
    /\ s_pc = "idle"
    /\ s_variant \in Variants
    /\ s_utterances < MaxUtterances
    /\ s_utterances' = s_utterances + 1
    /\ \E n \in 0..MaxSamples, saved \in BOOLEAN, readable \in BOOLEAN :
         /\ s_n' = n
         /\ s_file_path' = Save(saved, s_variant, s_utterances + 1, s_disk).file_path
         /\ s_disk' = Save(saved, s_variant, s_utterances + 1, s_disk).disk
         /\ IF saved /\ readable
            THEN /\ s_pc' = "connect"
                 /\ UNCHANGED s_result
            ELSE /\ s_result' = ""
                 /\ s_pc' = "returned"
    /\ UNCHANGED <<s_variant, s_samples_per_message, s_delete_audio_file, s_start, s_sent, s_conn, s_recv,
                   s_peer_closed, s_received, s_unread, s_last_message>>
    /\ StreamOnly

\* websockets.connect returns: with a connection the receiver task is
\* started and the call goes on to its first send, where it returns to the
\* event loop; a handshake that fails or times out raises and speech_to_text
\* returns "".
S_Connect ==
    /\ s_pc = "connect"
    /\ \E connected \in BOOLEAN :
         IF connected
         THEN /\ s_conn' = "open"
              /\ s_recv' = "running"
              /\ s_pc' = "loop"
              /\ UNCHANGED s_result
         ELSE /\ s_result' = ""
              /\ s_pc' = "returned"
              /\ UNCHANGED <<s_conn, s_recv>>
    /\ UNCHANGED <<s_variant, s_samples_per_message, s_delete_audio_file, s_utterances, s_file_path, s_disk, s_n,
                   s_start, s_sent, s_peer_closed, s_received, s_unread, s_last_message>>
    /\ StreamOnly

\* What precedes the loop has been sent: always for shepra_streaming_online,
\* which sends nothing there; for shepra_streaming once the message with the
\* header is out.
SentFirst == FirstMessages(s_variant, s_samples_per_message, s_n) = << >> \/ s_sent # << >>

\* shepra_streaming.py 66-68: await websocket.send(header + chunk0) completes
\* and start is set.
S_SendFirst ==
    /\ s_pc = "loop"
    /\ ~s_peer_closed
    /\ ~SentFirst
    /\ s_sent' = FirstMessages(s_variant, s_samples_per_message, s_n)
    /\ s_start' = InitialStart(s_variant, s_samples_per_message)
    /\ UNCHANGED <<s_variant, s_samples_per_message, s_delete_audio_file, s_utterances, s_file_path, s_disk, s_pc, s_n, s_conn, s_peer_closed, s_recv,
                   s_received, s_unread, s_last_message, s_result>>
    /\ StreamOnly

\* The end of the slice the iteration at start sends: min(start +
\* samples_per_message, n).
End(start, spm, n) == Min(start + spm, n)

\* An iteration of the while loop up to its sleep: data[start:end] is sent
\* and the call suspends in asyncio.sleep, start still where it was.
S_SendChunk ==
    /\ s_pc = "loop"
    /\ ~s_peer_closed
    /\ SentFirst
    /\ s_start < s_n
    /\ s_sent' = Append(s_sent, Binary(<< >>, s_start, End(s_start, s_samples_per_message, s_n)))
    /\ s_pc' = "sleep"
    /\ UNCHANGED <<s_variant, s_samples_per_message, s_delete_audio_file, s_utterances, s_file_path, s_disk, s_n, s_start, s_conn, s_peer_closed, s_recv,
                   s_received, s_unread, s_last_message, s_result>>
    /\ StreamOnly

\* asyncio.sleep(seconds_per_message) returns: start = end, and the loop
\* tests start < n again.
S_Sleep ==
    /\ s_pc = "sleep"
    /\ s_start' = End(s_start, s_samples_per_message, s_n)
    /\ s_pc' = "loop"
    /\ UNCHANGED <<s_variant, s_samples_per_message, s_delete_audio_file, s_utterances, s_file_path, s_disk, s_n, s_sent, s_conn, s_peer_closed, s_recv,
                   s_received, s_unread, s_last_message, s_result>>
    /\ StreamOnly

\* The loop has ended: "Done" is sent and the receiver task awaited.
S_SendDone ==
    /\ s_pc = "loop"
    /\ ~s_peer_closed
    /\ SentFirst
    /\ s_start >= s_n
    /\ s_sent' = Append(s_sent, Done)
    /\ s_pc' = "await_result"
    /\ UNCHANGED <<s_variant, s_samples_per_message, s_delete_audio_file, s_utterances, s_file_path, s_disk, s_n, s_start, s_conn, s_peer_closed, s_recv,
                   s_received, s_unread, s_last_message, s_result>>
    /\ StreamOnly

\* A send on a connection the server has closed raises; the connection is
\* closed by the async with block and speech_to_text returns "".
S_SendFails ==
    /\ s_pc = "loop"
    /\ s_peer_closed
    /\ s_conn' = AExit(s_conn)
    /\ s_result' = ""
    /\ s_pc' = "returned"
    /\ UNCHANGED <<s_variant, s_samples_per_message, s_delete_audio_file, s_utterances, s_file_path, s_disk, s_n, s_start, s_sent, s_peer_closed, s_recv,
                   s_received, s_unread, s_last_message>>
    /\ StreamOnly

\* receive_results takes the next message of the server.
S_Receive ==
    /\ s_pc \in {"loop", "sleep", "await_result"}
    /\ s_recv = "running"
    /\ ~s_peer_closed
    /\ \E m \in ServerMessages \cup {"Done!"} :
         IF m = "Done!"
         THEN /\ s_recv' = "finished"
              /\ UNCHANGED <<s_received, s_last_message>>
         ELSE /\ Len(s_received) < MaxServerMessages
              /\ s_received' = Append(s_received, m)
              /\ s_last_message' = m
              /\ s_recv' = IF s_variant = "shepra_streaming_online" /\ ~IsJson(m)
                           THEN "raised" ELSE "running"
    /\ UNCHANGED <<s_variant, s_samples_per_message, s_delete_audio_file, s_utterances, s_file_path, s_disk, s_pc, s_n, s_start, s_sent, s_conn,
                   s_peer_closed, s_unread, s_result>>
    /\ StreamOnly

\* shepra_streaming_online.py 49: receive_results has raised on a message that
\* is not JSON and reads no more; what the server sends then stays unread.
S_Unread ==
    /\ s_pc \in {"loop", "sleep", "await_result"}
    /\ s_recv = "raised"
    /\ ~s_peer_closed
    /\ Len(s_received) + Len(s_unread) < MaxServerMessages
    /\ \E m \in ServerMessages : s_unread' = Append(s_unread, m)
    /\ UNCHANGED <<s_variant, s_samples_per_message, s_delete_audio_file, s_utterances, s_file_path, s_disk, s_pc, s_n, s_start, s_sent, s_conn,
                   s_peer_closed, s_recv, s_received, s_last_message, s_result>>
    /\ StreamOnly

\* The server closes the connection: the async for of receive_results ends.
S_ServerClose ==
    /\ s_pc \in {"loop", "sleep", "await_result", "tcp_send", "tcp_recv"}
    /\ ~s_peer_closed
    /\ s_peer_closed' = TRUE
    /\ s_recv' = IF s_recv = "running" THEN "finished" ELSE s_recv
    /\ UNCHANGED <<s_variant, s_samples_per_message, s_delete_audio_file, s_utterances, s_file_path, s_disk, s_pc, s_n, s_start, s_sent, s_conn,
                   s_received, s_unread, s_last_message, s_result>>
    /\ StreamOnly

\* await receive_task returns or raises; websocket_asr and speech_to_text end.
S_Finish ==
    /\ s_pc = "await_result"
    /\ s_recv # "running"
    /\ s_result' = FinalResult(s_variant, s_recv, s_last_message)
    /\ s_conn' = AExit(s_conn)
    /\ s_pc' = "returned"
    /\ UNCHANGED <<s_variant, s_samples_per_message, s_delete_audio_file, s_utterances, s_file_path, s_disk, s_n, s_start, s_sent, s_peer_closed, s_recv,
                   s_received, s_unread, s_last_message>>
    /\ StreamOnly

\* The session is torn down while the call waits in the handshake, in a send,
\* in the sleep or in await receive_task: CancelledError leaves the async
\* with block (during the handshake no connection was made and nothing was
\* sent), is not caught by except Exception, and ends the call without a
\* result.
S_Cancel ==
    /\ s_pc \in {"connect", "loop", "sleep", "await_result"}
    /\ s_conn' = AExit(s_conn)
    /\ s_recv' = IF s_recv = "running" THEN "finished" ELSE s_recv
    /\ s_result' = "cancelled"
    /\ s_pc' = "returned"
    /\ UNCHANGED <<s_variant, s_samples_per_message, s_delete_audio_file, s_utterances, s_file_path, s_disk, s_n, s_start, s_sent, s_peer_closed,
                   s_received, s_unread, s_last_message>>
    /\ StreamOnly

\* ---- whisper_ws.py: tcp_asr ----
\* The socket backends: the two websocket variants and whisper_ws.
Backends == Variants \cup {"whisper_ws"}

\* Lines the TCP server sends, as line_str.split(maxsplit=2) sees them: with
\* the two timestamps in front, without, and a blank line.
TcpLines == {<<"0", "1200", "hello">>, <<"hello", "world">>, <<"7", "hello", "world">>, << >>}
IsDigit(w) == w \in {"0", "1200", "7"}

\* whisper_ws.py 63-68: a line of three parts of which the first two are
\* digits loses them.
Cleaned(parts) ==
    IF Len(parts) = 3 /\ IsDigit(parts[1]) /\ IsDigit(parts[2]) THEN <<parts[3]>> ELSE parts

\* "\n".join(result_lines): empty without lines, else the text of the lines
\* s_received holds.
Joined(lines) == IF lines = << >> THEN "" ELSE "lines"

\* The chunk of the file sent by one sendall.
FileChunk(i) == [kind |-> "bytes", header |-> << >>, from |-> i, to |-> i + 1]

\* speech_to_text and tcp_asr up to the first sendall: the file is saved, the
\* socket made and connected. A failure is logged, the with block is left and
\* the lines (none) are joined.
T_Call ==
    /\ s_pc = "idle"
    /\ s_variant = "whisper_ws"
    /\ s_utterances < MaxUtterances
    /\ s_utterances' = s_utterances + 1
    /\ \E k \in 0..MaxChunks, saved \in BOOLEAN, connected \in BOOLEAN :
         /\ s_n' = k
         /\ s_file_path' = Save(saved, s_variant, s_utterances + 1, s_disk).file_path
         /\ s_disk' = Save(saved, s_variant, s_utterances + 1, s_disk).disk
         /\ IF ~saved
            THEN /\ s_result' = ""
                 /\ s_pc' = "returned"
                 /\ UNCHANGED s_conn
            ELSE IF connected
            THEN /\ s_conn' = "open"
                 /\ s_pc' = "tcp_send"
                 /\ UNCHANGED s_result
            ELSE /\ s_conn' = AExit("open")
                 /\ s_result' = Joined(<< >>)
                 /\ s_pc' = "returned"
    /\ UNCHANGED <<s_variant, s_samples_per_message, s_delete_audio_file, s_start, s_sent, s_peer_closed, s_recv,
                   s_received, s_unread, s_last_message>>
    /\ StreamOnly

\* while chunk := f.read(2048): sock.sendall(chunk)
T_Send ==
    /\ s_pc = "tcp_send"
    /\ ~s_peer_closed
    /\ s_start < s_n
    /\ s_sent' = Append(s_sent, FileChunk(s_start))
    /\ s_start' = s_start + 1
    /\ UNCHANGED <<s_variant, s_samples_per_message, s_delete_audio_file, s_utterances, s_file_path, s_disk, s_pc, s_n, s_conn, s_peer_closed, s_recv,
                   s_received, s_unread, s_last_message, s_result>>
    /\ StreamOnly

\* sendall on a connection the server has closed raises: the socket is closed
\* by the with block, the exception logged, the lines (none) joined.
T_SendFails ==
    /\ s_pc = "tcp_send"
    /\ s_peer_closed
    /\ s_start < s_n
    /\ s_conn' = AExit(s_conn)
    /\ s_result' = Joined(s_received)
    /\ s_pc' = "returned"
    /\ UNCHANGED <<s_variant, s_samples_per_message, s_delete_audio_file, s_utterances, s_file_path, s_disk, s_n, s_start, s_sent, s_peer_closed, s_recv,
                   s_received, s_unread, s_last_message>>
    /\ StreamOnly

\* The file is sent: sock.shutdown(SHUT_WR), then the recv loop.
T_Shutdown ==
    /\ s_pc = "tcp_send"
    /\ s_start >= s_n
    /\ s_pc' = "tcp_recv"
    /\ UNCHANGED <<s_variant, s_samples_per_message, s_delete_audio_file, s_utterances, s_file_path, s_disk, s_n, s_start, s_sent, s_conn, s_peer_closed,
                   s_recv, s_received, s_unread, s_last_message, s_result>>
    /\ StreamOnly

\* sock.recv returns data that ends a line: the line is cleaned and kept
\* unless it is blank.
T_RecvLine ==
    /\ s_pc = "tcp_recv"
    /\ ~s_peer_closed
    /\ Len(s_received) < MaxServerMessages
    /\ \E parts \in TcpLines :
         s_received' = IF parts = << >> THEN s_received
                       ELSE Append(s_received, Cleaned(parts))
    /\ UNCHANGED <<s_variant, s_samples_per_message, s_delete_audio_file, s_utterances, s_file_path, s_disk, s_pc, s_n, s_start, s_sent, s_conn,
                   s_peer_closed, s_recv, s_unread, s_last_message, s_result>>
    /\ StreamOnly

\* The server has closed: sock.recv returns b"" (or raises), the with block
\* is left and the lines are joined.
T_RecvEnd ==
    /\ s_pc = "tcp_recv"
    /\ s_peer_closed
    /\ s_conn' = AExit(s_conn)
    /\ s_result' = Joined(s_received)
    /\ s_pc' = "returned"
    /\ UNCHANGED <<s_variant, s_samples_per_message, s_delete_audio_file, s_utterances, s_file_path, s_disk, s_n, s_start, s_sent, s_peer_closed, s_recv,
                   s_received, s_unread, s_last_message>>
    /\ StreamOnly

\* The finally clause of speech_to_text runs and the caller has the result;
\* the provider takes the next utterance.
S_Return ==
    /\ s_pc = "returned"
    /\ s_pc' = "idle"
    /\ s_n' = 0 /\ s_start' = 0 /\ s_sent' = << >> /\ s_conn' = "none"
    /\ s_peer_closed' = FALSE /\ s_recv' = "none" /\ s_received' = << >> /\ s_unread' = << >>
    /\ s_last_message' = "" /\ s_result' = "pending"
    /\ s_disk' = Finally(s_delete_audio_file, s_file_path, s_disk)
    /\ s_file_path' = 0
    /\ UNCHANGED <<s_variant, s_samples_per_message, s_delete_audio_file, s_utterances>>
    /\ StreamOnly

\* __init__
StreamInit ==
    /\ s_variant \in Backends
    /\ s_samples_per_message \in SamplesPerMessage
    /\ s_variant = "whisper_ws" => s_samples_per_message = 1
    /\ s_pc = "idle" /\ s_n = 0 /\ s_start = 0 /\ s_sent = << >> /\ s_conn = "none"
    /\ s_peer_closed = FALSE /\ s_recv = "none" /\ s_received = << >> /\ s_unread = << >>
    /\ s_last_message = "" /\ s_result = "pending"
    /\ s_delete_audio_file \in BOOLEAN
    /\ s_utterances = 0 /\ s_file_path = 0 /\ s_disk = {}

NextStream ==
    \/ S_Call \/ S_Connect \/ S_SendFirst \/ S_SendChunk \/ S_Sleep \/ S_SendDone \/ S_SendFails
    \/ S_Receive \/ S_Unread \/ S_ServerClose \/ S_Finish \/ S_Cancel \/ S_Return
    \/ T_Call \/ T_Send \/ T_SendFails \/ T_Shutdown \/ T_RecvLine \/ T_RecvEnd

InitStream == StreamInit /\ AliyunParked /\ WhisperParked /\ WhisperXParked /\ FramingParked /\ SherpaParked /\ QueueParked /\ GeminiParked /\ OllamaParked /\ IntentParked

SpecStream == InitStream /\ [][NextStream]_vars

\* The steps the client takes by itself once they are possible: the event loop
\* resumes a coroutine whose await has completed, and blocking calls that can
\* return do; websockets.connect gives up after its open_timeout. What the
\* server sends or closes, and the teardown of the session, are left to the
\* environment.
StreamSteps ==
    \/ S_Connect \/ S_SendFirst \/ S_SendChunk \/ S_Sleep \/ S_SendDone \/ S_SendFails \/ S_Finish
    \/ S_Return
    \/ T_Send \/ T_SendFails \/ T_Shutdown \/ T_RecvEnd

SpecStreamFair == InitStream /\ [][NextStream]_vars /\ WF_vars(StreamSteps)

(***************************************************************************)
(* sherpa_onnx_local.py: speech_to_text, switch_model, _load_model          *)
(***************************************************************************)
\* The threads that call speech_to_text of one provider.
Threads == {1, 2}

\* MODEL_MAPPING, and a configured model_dir that is neither of its values.
MODEL_MAPPING ==
    [english |-> "models/sherpa-onnx-sense-voice-zh-en-ja-ko-yue",
     vietnamese |-> "models/sherpa-onnx-zipformer-vi-int8-2025-04-20"]
Dirs == {MODEL_MAPPING.english, MODEL_MAPPING.vietnamese, "models/configured"}

\* What _load_model finds in a directory: a usable model, no tokens.txt
\* (line 75), or tokens.txt but no model file the engine can be built from
\* (line 137, or the constructor raises).
LoadOutcomes == {"ok", "no_tokens", "no_model"}

\* Phrases of a decoded text. Vietnamese is written in Telex so that the
\* accented and the unaccented spellings differ: "chuyeenr sang tieesng anh" is
\* the accented phrase of line 20, "chuyen sang tieng anh" the bare one.
en_triggers ==
    {"chuyeenr sang tieesng anh", "cos theer nois tieesng anh khoong",
     "co the noi tieng anh", "can you speak english", "switch to english"}
vi_triggers ==
    {"chuyeenr sang tieesng vieejt", "cos theer nois tieesng vieejt khoong",
     "co the noi tieng viet", "can you speak vietnamese", "switch to vietnamese"}

\* str.lower() of a phrase
LowerPhrase(p) ==
    IF p = "Switch to English" THEN "switch to english"
    ELSE IF p = "Chuyeenr sang tieesng Vieejt" THEN "chuyeenr sang tieesng vieejt"
    ELSE p

\* Decoded texts, as the sequence of their phrases.
Texts ==
    {<< >>, <<"hello">>, <<"Switch to English">>, <<"Chuyeenr sang tieesng Vieejt">>,
     <<"chuyen sang tieng viet">>, <<"switch to vietnamese", "switch to english">>}

\* Mutant: the Vietnamese triggers are looked for first.
detect_language_switch_ViFirst(text) ==
    IF \E i \in 1..Len(text) : LowerPhrase(text[i]) \in vi_triggers THEN "vietnamese"
    ELSE IF \E i \in 1..Len(text) : LowerPhrase(text[i]) \in en_triggers THEN "english"
    ELSE ""

\* detect_language_switch: the English triggers are looked for first.
detect_language_switch(text) ==
    IF \E i \in 1..Len(text) : LowerPhrase(text[i]) \in en_triggers THEN "english"
    ELSE IF \E i \in 1..Len(text) : LowerPhrase(text[i]) \in vi_triggers THEN "vietnamese"
    ELSE ""

\* Mutant: the handle is replaced before the model files are looked for.
LoadModel_AssignFirst(model_dir, found, model, tokens_path) ==
    IF found = "no_tokens" THEN [raised |-> TRUE, model |-> model, tokens_path |-> tokens_path]
    ELSE [raised |-> found # "ok", model |-> model_dir, tokens_path |-> model_dir]

\* _load_model: raises before anything is assigned when tokens.txt is missing;
\* assigns self.tokens_path at line 77; assigns self.model last, when the
\* engine is built, and raises without assigning it otherwise.
LoadModel(model_dir, found, model, tokens_path) ==
    IF found = "no_tokens" THEN [raised |-> TRUE, model |-> model, tokens_path |-> tokens_path]
    ELSE IF found = "no_model" THEN [raised |-> TRUE, model |-> model, tokens_path |-> model_dir]
    ELSE [raised |-> FALSE, model |-> model_dir, tokens_path |-> model_dir]

\* Mutant: the lock is taken whoever holds it.
CanAcquire_Always(lock) == TRUE

\* threading.Lock: acquired only when free.
CanAcquire(lock) == lock = 0

\* Mutant: leaving the with block keeps the lock.
ExitWith_Held(lock) == lock

\* Leaving "with self.model_lock", by its end or by an exception, releases
\* the lock.
ExitWith(lock) == 0

\* The locals of a speech_to_text that has not begun.
NoCall == [stream |-> << >>, decoder |-> << >>, text |-> << >>, new_model |-> "",
           result |-> << >>]

ShGoto(t, p) == sh_pc' = [sh_pc EXCEPT ![t] = p]

\* speech_to_text up to the lock: the audio is decoded and saved. An exception
\* there is caught at line 233 and "" returned.
SH_Call(t) ==
    /\ sh_pc[t] = "idle"
    /\ \E saved \in BOOLEAN :
         IF saved
         THEN ShGoto(t, "acquire") /\ UNCHANGED sh_call
         ELSE /\ sh_call' = [sh_call EXCEPT ![t].result = << << >> >>]
              /\ ShGoto(t, "returned")
    /\ UNCHANGED <<sh_dirs, sh_lock, sh_model, sh_tokens_path, sh_current_model_dir>>
    /\ SherpaOnly

\* with self.model_lock (line 212)
SH_Acquire(t) ==
    /\ sh_pc[t] = "acquire"
    /\ CanAcquire(sh_lock)
    /\ sh_lock' = t
    /\ ShGoto(t, "locked")
    /\ UNCHANGED <<sh_dirs, sh_model, sh_tokens_path, sh_current_model_dir, sh_call>>
    /\ SherpaOnly

\* s = self.model.create_stream(), then read_wave and accept_waveform. A file
\* read_wave rejects raises: the lock is released and "" returned.
SH_CreateStream(t) ==
    /\ sh_pc[t] = "locked"
    /\ \E readable \in BOOLEAN :
         IF readable
         THEN /\ sh_call' = [sh_call EXCEPT ![t].stream = <<sh_model>>]
              /\ ShGoto(t, "stream")
              /\ UNCHANGED sh_lock
         ELSE /\ sh_call' = [sh_call EXCEPT ![t].stream = <<sh_model>>,
                                            ![t].result = << << >> >>]
              /\ sh_lock' = ExitWith(sh_lock)
              /\ ShGoto(t, "returned")
    /\ UNCHANGED <<sh_dirs, sh_model, sh_tokens_path, sh_current_model_dir>>
    /\ SherpaOnly

\* self.model.decode_stream(s); text = s.result.text; the with block ends.
SH_Decode(t) ==
    /\ sh_pc[t] = "stream"
    /\ \E text \in Texts :
         sh_call' = [sh_call EXCEPT ![t].decoder = <<sh_model>>, ![t].text = <<text>>]
    /\ sh_lock' = ExitWith(sh_lock)
    /\ ShGoto(t, "decoded")
    /\ UNCHANGED <<sh_dirs, sh_model, sh_tokens_path, sh_current_model_dir>>
    /\ SherpaOnly

\* Lines 221-231: the trigger is looked for and current_model_dir read, without
\* the lock; without a switch the text is returned.
SH_Detect(t) ==
    /\ sh_pc[t] = "decoded"
    /\ LET lang_switch == detect_language_switch(sh_call[t].text[1])
           new_model == IF lang_switch = "" THEN "" ELSE MODEL_MAPPING[lang_switch]
       IN IF lang_switch # "" /\ new_model # sh_current_model_dir
          THEN /\ sh_call' = [sh_call EXCEPT ![t].new_model = new_model]
               /\ ShGoto(t, "switch")
          ELSE /\ sh_call' = [sh_call EXCEPT ![t].result = <<sh_call[t].text[1]>>]
               /\ ShGoto(t, "returned")
    /\ UNCHANGED <<sh_dirs, sh_lock, sh_model, sh_tokens_path, sh_current_model_dir>>
    /\ SherpaOnly

\* switch_model: with self.model_lock (line 140)
SW_Acquire(t) ==
    /\ sh_pc[t] = "switch"
    /\ CanAcquire(sh_lock)
    /\ sh_lock' = t
    /\ ShGoto(t, "loading")
    /\ UNCHANGED <<sh_dirs, sh_model, sh_tokens_path, sh_current_model_dir, sh_call>>
    /\ SherpaOnly

\* self._load_model(new_model_dir). When it raises, the lock is released and
\* the exception, raised inside the try of speech_to_text, is caught at line
\* 233: "" is returned.
SW_Load(t) ==
    /\ sh_pc[t] = "loading"
    /\ LET r == LoadModel(sh_call[t].new_model, sh_dirs[sh_call[t].new_model],
                          sh_model, sh_tokens_path)
       IN /\ sh_model' = r.model
          /\ sh_tokens_path' = r.tokens_path
          /\ IF r.raised
             THEN /\ sh_lock' = ExitWith(sh_lock)
                  /\ sh_call' = [sh_call EXCEPT ![t].result = << << >> >>]
                  /\ ShGoto(t, "returned")
             ELSE /\ ShGoto(t, "loaded")
                  /\ UNCHANGED <<sh_lock, sh_call>>
    /\ UNCHANGED <<sh_dirs, sh_current_model_dir>>
    /\ SherpaOnly

\* self.current_model_dir = new_model_dir; the lock is released and
\* speech_to_text returns its text.
SW_Publish(t) ==
    /\ sh_pc[t] = "loaded"
    /\ sh_current_model_dir' = sh_call[t].new_model
    /\ sh_lock' = ExitWith(sh_lock)
    /\ sh_call' = [sh_call EXCEPT ![t].result = <<sh_call[t].text[1]>>]
    /\ ShGoto(t, "returned")
    /\ UNCHANGED <<sh_dirs, sh_model, sh_tokens_path>>
    /\ SherpaOnly

\* The caller has the result; the thread takes its next utterance.
SH_Return(t) ==
    /\ sh_pc[t] = "returned"
    /\ sh_call' = [sh_call EXCEPT ![t] = NoCall]
    /\ ShGoto(t, "idle")
    /\ UNCHANGED <<sh_dirs, sh_lock, sh_model, sh_tokens_path, sh_current_model_dir>>
    /\ SherpaOnly

\* __init__: the lock is made, current_model_dir set and the configured model
\* loaded; a provider exists only when that load succeeded.
SherpaInit ==
    /\ sh_dirs \in [Dirs -> LoadOutcomes]
    /\ sh_lock = 0
    /\ sh_current_model_dir \in Dirs
    /\ sh_dirs[sh_current_model_dir] = "ok"
    /\ sh_model = LoadModel(sh_current_model_dir, "ok", "", "").model
    /\ sh_tokens_path = LoadModel(sh_current_model_dir, "ok", "", "").tokens_path
    /\ sh_pc = [t \in Threads |-> "idle"]
    /\ sh_call = [t \in Threads |-> NoCall]

NextSherpa ==
    \E t \in Threads :
       \/ SH_Call(t) \/ SH_Acquire(t) \/ SH_CreateStream(t) \/ SH_Decode(t) \/ SH_Detect(t)
       \/ SW_Acquire(t) \/ SW_Load(t) \/ SW_Publish(t) \/ SH_Return(t)

InitSherpa ==
    /\ SherpaInit /\ AliyunParked /\ WhisperParked /\ WhisperXParked /\ FramingParked
    /\ StreamParked /\ QueueParked /\ GeminiParked /\ OllamaParked /\ IntentParked

SpecSherpa == InitSherpa /\ [][NextSherpa]_vars

\* The steps a thread takes by itself once it is in a call, and the
\* scheduling of the threads: a thread that can step does, and a thread that
\* waits for a lock that stays free gets it. threading.Lock keeps no queue of
\* its waiters: of a lock that is free only now and then, nothing says which
\* waiter takes it.
ThreadStep(t) ==
    \/ SH_CreateStream(t) \/ SH_Decode(t) \/ SH_Detect(t)
    \/ SW_Load(t) \/ SW_Publish(t) \/ SH_Return(t)

SpecSherpaFair ==
    /\ InitSherpa /\ [][NextSherpa]_vars
    /\ \A t \in Threads :
          /\ WF_vars(ThreadStep(t))
          /\ WF_vars(SH_Acquire(t)) /\ WF_vars(SW_Acquire(t))

(***************************************************************************)
(* play_music.py: play_music, play_local_music, and the synthesis queue     *)
(***************************************************************************)
\* The music commands of one connection, each run as a task of its event loop.
MusicTasks == {1, 2}

\* The synthesis worker of the connection, which streams the audio frames of
\* the reply into the same channel from a thread of its own, and the frames
\* it streams at most.
Streamer == 0
MaxFrames == 1

\* Who puts units on the queue of the connection.
Producers == MusicTasks \cup {Streamer}

\* Values of conn.intent_type.
IntentTypes == {"intent_llm", "function_call"}

\* Music files, and the prompts _get_random_play_prompt chooses from.
MusicFiles == {"a.mp3", "b.mp3"}
Prompts == {1, 7}

\* TTSMessageDTO
DTO(sentence_id, sentence_type, content_type, detail, file) ==
    [sentence_id |-> sentence_id, sentence_type |-> sentence_type,
     content_type |-> content_type, content_detail |-> detail, content_file |-> file]

NoLocal == [text |-> << >>, music_path |-> ""]

\* Mutant: the task gives the event loop up after its first put.
KeepsLoop_YieldAfterFirst(p) == p \in {"first"}

\* A task keeps the event loop from its resumption after send_stt_message to
\* its end: lines 264-297 hold no await.
KeepsLoop(p) == p \in {"first", "text", "file", "last"}

\* The event loop runs task k: it holds the loop, or nothing does.
Scheduled(k) == q_running \in {0, k}

\* Task k moves to position p; it keeps the event loop or gives it up.
QGoto(k, p) ==
    /\ q_pc' = [q_pc EXCEPT ![k] = p]
    /\ q_running' = IF KeepsLoop(p) THEN k ELSE 0

\* Mutant: the queue takes a unit in at its front.
Enqueue_Front(queue, unit) == <<unit>> \o queue

\* The queue is unbounded and first in, first out: a unit is taken in at the
\* back, at once, and given out at the front.
Enqueue(queue, unit) == Append(queue, unit)
Dequeue(queue) == [unit |-> Head(queue), rest |-> Tail(queue)]

\* tts_text_queue.put(unit) by producer k; q_enqueued and q_log record the
\* calls in the order they are made.
Put(k, unit) ==
    /\ q_queue' = Enqueue(q_queue, unit)
    /\ q_enqueued' = Append(q_enqueued, unit)
    /\ q_log' = [q_log EXCEPT ![k] = Append(q_log[k], unit)]

\* play_music: the command is made a task of the event loop, or refused when
\* the loop is not running.
Q_PlayMusic(k) ==
    /\ q_pc[k] = "none"
    /\ q_response[k] = ""
    /\ \E loop_running \in BOOLEAN :
         IF loop_running
         THEN /\ q_pc' = [q_pc EXCEPT ![k] = "created"]
              /\ q_response' = [q_response EXCEPT ![k] = "NONE"]
         ELSE /\ q_response' = [q_response EXCEPT ![k] = "RESPONSE"]
              /\ UNCHANGED q_pc
    /\ UNCHANGED <<q_sentence_id, q_intent_type, q_queue, q_enqueued, q_delivered, q_running,
                   q_local, q_log>>
    /\ QueueOnly

\* The task runs handle_music_command and play_local_music up to the await of
\* send_stt_message; without a music directory or the file it ends there.
Q_Start(k) ==
    /\ Scheduled(k)
    /\ q_pc[k] = "created"
    /\ \E found \in BOOLEAN, file \in MusicFiles, prompt \in Prompts :
         IF found
         THEN /\ q_local' = [q_local EXCEPT ![k] = [text |-> <<prompt, file>>, music_path |-> file]]
              /\ QGoto(k, "await_stt")
         ELSE /\ QGoto(k, "done")
              /\ UNCHANGED q_local
    /\ UNCHANGED <<q_sentence_id, q_intent_type, q_queue, q_enqueued, q_delivered, q_log,
                   q_response>>
    /\ QueueOnly

\* send_stt_message has returned or raised; the task is resumed and puts the
\* text in the dialogue, or logs the exception and ends.
Q_Resume(k) ==
    /\ Scheduled(k)
    /\ q_pc[k] = "await_stt"
    /\ \E sent \in BOOLEAN : QGoto(k, IF sent THEN "first" ELSE "done")
    /\ UNCHANGED <<q_sentence_id, q_intent_type, q_queue, q_enqueued, q_delivered, q_local,
                   q_log, q_response>>
    /\ QueueOnly

\* Lines 266-273
Q_PutFirst(k) ==
    /\ Scheduled(k)
    /\ q_pc[k] = "first"
    /\ IF q_intent_type = "intent_llm"
       THEN Put(k, DTO(q_sentence_id, "FIRST", "ACTION", << >>, ""))
       ELSE UNCHANGED <<q_queue, q_enqueued, q_log>>
    /\ QGoto(k, "text")
    /\ UNCHANGED <<q_sentence_id, q_intent_type, q_delivered, q_local, q_response>>
    /\ QueueOnly

\* Lines 274-281
Q_PutText(k) ==
    /\ Scheduled(k)
    /\ q_pc[k] = "text"
    /\ Put(k, DTO(q_sentence_id, "MIDDLE", "TEXT", q_local[k].text, ""))
    /\ QGoto(k, "file")
    /\ UNCHANGED <<q_sentence_id, q_intent_type, q_delivered, q_local, q_response>>
    /\ QueueOnly

\* Lines 282-289
Q_PutFile(k) ==
    /\ Scheduled(k)
    /\ q_pc[k] = "file"
    /\ Put(k, DTO(q_sentence_id, "MIDDLE", "FILE", << >>, q_local[k].music_path))
    /\ QGoto(k, "last")
    /\ UNCHANGED <<q_sentence_id, q_intent_type, q_delivered, q_local, q_response>>
    /\ QueueOnly

\* Lines 290-297; play_local_music and the task end.
Q_PutLast(k) ==
    /\ Scheduled(k)
    /\ q_pc[k] = "last"
    /\ IF q_intent_type = "intent_llm"
       THEN Put(k, DTO(q_sentence_id, "LAST", "ACTION", << >>, ""))
       ELSE UNCHANGED <<q_queue, q_enqueued, q_log>>
    /\ QGoto(k, "done")
    /\ UNCHANGED <<q_sentence_id, q_intent_type, q_delivered, q_local, q_response>>
    /\ QueueOnly

\* The connection begins its next reply, while no task holds the event loop.
Q_NewSentence ==
    /\ q_running = 0
    /\ q_sentence_id < MaxSentences
    /\ q_sentence_id' = q_sentence_id + 1
    /\ UNCHANGED <<q_intent_type, q_queue, q_enqueued, q_delivered, q_running, q_pc, q_local,
                   q_log, q_response>>
    /\ QueueOnly

\* The synthesis worker puts the next audio frame of the reply; its thread
\* runs whatever the event loop does, also between two puts of a music task.
Q_StreamFrame ==
    /\ Len(q_log[Streamer]) < MaxFrames
    /\ Put(Streamer, DTO(q_sentence_id, "MIDDLE", "AUDIO", <<Len(q_log[Streamer]) + 1>>, ""))
    /\ UNCHANGED <<q_sentence_id, q_intent_type, q_delivered, q_running, q_pc, q_local,
                   q_response>>
    /\ QueueOnly

\* The playback consumer takes a unit from the queue.
Q_Get ==
    /\ q_queue # << >>
    /\ q_delivered' = Append(q_delivered, Dequeue(q_queue).unit)
    /\ q_queue' = Dequeue(q_queue).rest
    /\ UNCHANGED <<q_sentence_id, q_intent_type, q_enqueued, q_running, q_pc, q_local, q_log,
                   q_response>>
    /\ QueueOnly

\* A connection with an empty queue and no music command yet.
QueueInit ==
    /\ q_sentence_id = 1
    /\ q_intent_type \in IntentTypes
    /\ q_queue = << >> /\ q_enqueued = << >> /\ q_delivered = << >>
    /\ q_running = 0
    /\ q_pc = [k \in MusicTasks |-> "none"]
    /\ q_local = [k \in MusicTasks |-> NoLocal]
    /\ q_log = [k \in Producers |-> << >>]
    /\ q_response = [k \in MusicTasks |-> ""]

NextQueue ==
    \/ \E k \in MusicTasks :
          \/ Q_PlayMusic(k) \/ Q_Start(k) \/ Q_Resume(k)
          \/ Q_PutFirst(k) \/ Q_PutText(k) \/ Q_PutFile(k) \/ Q_PutLast(k)
    \/ Q_NewSentence
    \/ Q_StreamFrame
    \/ Q_Get

InitQueue ==
    /\ QueueInit /\ AliyunParked /\ WhisperParked /\ WhisperXParked /\ FramingParked
    /\ StreamParked /\ SherpaParked /\ GeminiParked /\ OllamaParked /\ IntentParked

SpecQueue == InitQueue /\ [][NextQueue]_vars

(***************************************************************************)
(* gemini.py: process_pcm_frames, text_to_speak, to_tts_single_stream       *)
(***************************************************************************)
\* Bytes of the longest audio one synthesis request returns.
MaxAudioBytes == 2

\* Values of sample_rate, channels and sample_width in the configuration.
Configs == [sample_rate : {10, 25, 50}, channels : {1, 2}, sample_width : {1, 2}]

\* frame_ms where the caller leaves it out: lines 56 and 80
DefaultFrameMs == 60

\* PCM buffers handed to process_pcm_frames: bytes 0 and 255.
PcmInputs == UNION {[1..n -> {0, 255}] : n \in 0..MaxPcmBytes}

\* The audio a synthesis request returns, by its length.
Tone(n) == [j \in 1..n |-> 255]
AudioReplies == {Tone(n) : n \in 0..MaxAudioBytes}

\* Line 85: int(sample_rate * channels * frame_ms / 1000 * sample_width). For
\* sample widths of 1 to 4 bytes the float product is exact, so the
\* truncation is the integer division.
frame_bytes(cfg, frame_ms) ==
    (cfg.sample_rate * cfg.channels * frame_ms * cfg.sample_width) \div 1000

\* b"\x00" * n
Zeros(n) == [j \in 1..n |-> 0]

\* Mutant: a short last frame is yielded as it is.
PcmFrame_NoPad(pcm, i, fb) == SubSeq(pcm, i + 1, Min(i + fb, Len(pcm)))

\* Lines 88-91: pcm_data[i : i + frame_bytes], padded with zero bytes when
\* it is shorter than frame_bytes.
PcmFrame(pcm, i, fb) ==
    LET frame == SubSeq(pcm, i + 1, Min(i + fb, Len(pcm))) IN
    IF Len(frame) < fb THEN frame \o Zeros(fb - Len(frame)) ELSE frame

\* list(process_pcm_frames(pcm)) from position i on, for frame_bytes >= 1.
RECURSIVE ListFrames(_, _, _)
ListFrames(pcm, i, fb) ==
    IF i >= Len(pcm) THEN << >> ELSE <<PcmFrame(pcm, i, fb)>> \o ListFrames(pcm, i + fb, fb)

\* text_to_speak(text) as to_tts_single_stream calls it, for the audio the
\* service returned: the list of frames, or an exception when range() is
\* given the step 0 (lines 75-78).
TextToSpeak(audio, cfg) ==
    LET fb == frame_bytes(cfg, DefaultFrameMs) IN
    IF fb = 0 THEN [raised |-> TRUE, frames |-> << >>]
    ELSE [raised |-> FALSE, frames |-> ListFrames(audio, 0, fb)]

\* ---- process_pcm_frames as a generator ----
\* The generator is started: line 85-87. range() with the step 0 raises.
PF_Call ==
    /\ g_pc = "idle"
    /\ g_pc' = IF frame_bytes(g_cfg, DefaultFrameMs) = 0 THEN "raised" ELSE "running"
    /\ g_i' = 0
    /\ g_frames' = << >>
    /\ UNCHANGED <<g_cfg, g_log, g_max_repeat_time, g_pcm, g_calls, g_queue>>
    /\ GeminiOnly

\* One iteration of the for loop: a frame is yielded.
PF_Yield ==
    /\ g_pc = "running"
    /\ g_i < Len(g_pcm)
    /\ g_frames' = Append(g_frames, PcmFrame(g_pcm, g_i, frame_bytes(g_cfg, DefaultFrameMs)))
    /\ g_i' = g_i + frame_bytes(g_cfg, DefaultFrameMs)
    /\ UNCHANGED <<g_cfg, g_log, g_pc, g_max_repeat_time, g_pcm, g_calls, g_queue>>
    /\ GeminiOnly

\* The range is exhausted: the generator ends.
PF_Stop ==
    /\ g_pc = "running"
    /\ g_i >= Len(g_pcm)
    /\ g_pc' = "exhausted"
    /\ UNCHANGED <<g_cfg, g_log, g_max_repeat_time, g_pcm, g_i, g_frames, g_calls, g_queue>>
    /\ GeminiOnly

FramesInit ==
    /\ g_cfg \in Configs
    /\ g_pcm \in PcmInputs
    /\ g_log = << >> /\ g_pc = "idle" /\ g_max_repeat_time = 0
    /\ g_i = 0 /\ g_frames = << >> /\ g_calls = 0 /\ g_queue = << >>

NextFrames == PF_Call \/ PF_Yield \/ PF_Stop

InitFrames ==
    /\ FramesInit /\ AliyunParked /\ WhisperParked /\ WhisperXParked /\ FramingParked
    /\ StreamParked /\ SherpaParked /\ QueueParked /\ OllamaParked /\ IntentParked

SpecFrames == InitFrames /\ [][NextFrames]_vars

\* ---- to_tts_single_stream ----
\* Line 116
MaxRepeatTime == 5

\* Calls of to_tts_single_stream on one provider.
MaxCalls == 2

\* The texts handed to to_tts_single_stream.
SpokenTexts == {"hello", "**hi**", ""}

\* Mutant: the module also imports the names to_tts_single_stream uses.
ModuleNames_Imported ==
    {"wave", "io", "check_model_key", "TTSProviderBase", "setup_logging", "genai", "types",
     "base64", "TAG", "logger", "TTSProvider", "MarkdownCleaner", "asyncio", "SentenceType"}

\* The global names of the module gemini: what lines 1-9 import, TAG and
\* logger of lines 11-12, and the class.
ModuleNames ==
    {"wave", "io", "check_model_key", "TTSProviderBase", "setup_logging", "genai", "types",
     "base64", "TAG", "logger", "TTSProvider"}

\* The lookup of a global name succeeds; otherwise it raises NameError.
Bound(name) == name \in ModuleNames

\* What encode_pcm_to_opus can come to for one frame: packets, nothing (the
\* test of line 127 fails), or an exception.
EncodeOutcomes == {"opus", "empty", "raises"}

\* What the service and the encoder do during one attempt: the request
\* raises or returns audio, and the encoder comes to encode[k] for frame k
\* (to packets for a frame past the end of encode).
AttemptEnvs ==
    {[request |-> "raises", audio |-> << >>, encode |-> << >>],
     [request |-> "audio", audio |-> Tone(0), encode |-> << >>],
     [request |-> "audio", audio |-> Tone(MaxAudioBytes), encode |-> << >>],
     [request |-> "audio", audio |-> Tone(MaxAudioBytes), encode |-> <<"opus", "raises">>],
     [request |-> "audio", audio |-> Tone(MaxAudioBytes), encode |-> <<"empty", "opus">>]}

Encoded(e, k) == IF k \in DOMAIN e.encode THEN e.encode[k] ELSE "opus"

\* The number of the attempt the loop is in, counted as line 132 does.
AttemptNo(max_repeat_time) == MaxRepeatTime + 1 - max_repeat_time

\* Lines 130-134: the except clause of the loop.
Failed(max_repeat_time) == max_repeat_time - 1

\* Lines 125-128: the frames from frame k on are encoded and, where there is
\* output, put on the queue; an exception (of the encoder, or the NameError
\* of SentenceType) ends the loop with the earlier frames on the queue.
RECURSIVE EncodeFrames(_, _, _, _, _, _)
EncodeFrames(frames, k, e, nth, attempt, queue) ==
    IF k > Len(frames) THEN [raised |-> FALSE, queue |-> queue]
    ELSE CASE Encoded(e, k) = "raises" -> [raised |-> TRUE, queue |-> queue]
           [] Encoded(e, k) = "empty" -> EncodeFrames(frames, k + 1, e, nth, attempt, queue)
           [] OTHER ->
                IF ~Bound("SentenceType") THEN [raised |-> TRUE, queue |-> queue]
                ELSE EncodeFrames(frames, k + 1, e, nth, attempt,
                                  Append(queue, [type |-> "MIDDLE", call |-> nth,
                                                 attempt |-> attempt, index |-> k]))

\* Lines 118-134: the while loop from max_repeat_time on. An attempt that
\* raises (the request, the NameError of asyncio, no frames, the encoder) is
\* logged and counted down; the first one that does not breaks the loop.
RECURSIVE RetryLoop(_, _, _, _, _, _)
RetryLoop(max_repeat_time, env, cfg, nth, queue, log) ==
    IF max_repeat_time <= 0
    THEN [max_repeat_time |-> max_repeat_time, queue |-> queue, log |-> log]
    ELSE LET e == env[AttemptNo(max_repeat_time)]
             r == IF ~Bound("asyncio") \/ e.request = "raises"
                  THEN [raised |-> TRUE, frames |-> << >>]
                  ELSE TextToSpeak(e.audio, cfg)
             enc == EncodeFrames(r.frames, 1, e, nth, AttemptNo(max_repeat_time), queue)
             warned == Append(log, "warning: generation failed")
         IN IF r.raised \/ r.frames = << >>
            THEN RetryLoop(Failed(max_repeat_time), env, cfg, nth, queue, warned)
            ELSE IF enc.raised
            THEN RetryLoop(Failed(max_repeat_time), env, cfg, nth, enc.queue, warned)
            ELSE [max_repeat_time |-> max_repeat_time, queue |-> enc.queue, log |-> log]

\* Lines 114-146: clean_markdown is looked up in the module, and the NameError
\* of a name that is not bound is caught at line 142 and logged; otherwise the
\* loop runs and its end is logged.
ToTtsSingleStream(env, cfg, nth, queue) ==
    IF ~Bound("MarkdownCleaner")
    THEN [max_repeat_time |-> MaxRepeatTime, queue |-> queue,
          log |-> <<"error: Failed to generate Gemini TTS file">>]
    ELSE LET r == RetryLoop(MaxRepeatTime, env, cfg, nth, queue, << >>) IN
         [max_repeat_time |-> r.max_repeat_time, queue |-> r.queue,
          log |-> Append(r.log, IF r.max_repeat_time > 0
                                THEN "info: generation succeeded"
                                ELSE "error: generation failed")]

\* to_tts_single_stream(text), from the call to its return of None.
G_Call ==
    /\ g_calls < MaxCalls
    /\ g_calls' = g_calls + 1
    /\ \E text \in SpokenTexts, env \in [1..MaxRepeatTime -> AttemptEnvs] :
         LET r == ToTtsSingleStream(env, g_cfg, g_calls + 1, g_queue) IN
         /\ g_max_repeat_time' = r.max_repeat_time
         /\ g_queue' = r.queue
         /\ g_log' = Append(g_log, [text |-> text, lines |-> r.log])
    /\ UNCHANGED <<g_cfg, g_pc, g_pcm, g_i, g_frames>>
    /\ GeminiOnly

\* __init__, lines 16-28, with an empty tts_audio_queue.
GeminiInit ==
    /\ g_cfg \in Configs
    /\ g_log = << >>
    /\ g_pc = "idle" /\ g_max_repeat_time = 0 /\ g_pcm = << >>
    /\ g_i = 0 /\ g_frames = << >> /\ g_calls = 0 /\ g_queue = << >>

NextGemini == G_Call

InitGemini ==
    /\ GeminiInit /\ AliyunParked /\ WhisperParked /\ WhisperXParked /\ FramingParked
    /\ StreamParked /\ SherpaParked /\ QueueParked /\ OllamaParked /\ IntentParked

SpecGemini == InitGemini /\ [][NextGemini]_vars

(***************************************************************************)
(* ollama.py: _stream_chunks, _inject_no_think, response                    *)
(***************************************************************************)
\* Chunks one output is delivered in, at most.
MaxPieces == 2
\* Calls of response and response_with_functions on one dialogue, and
\* messages of a dialogue.
MaxResponses == 2
MaxMessages == 3

\* Strings are sequences of characters.
OpenTag == <<"<", "t", "h", "i", "n", "k", ">">>
CloseTag == <<"<", "/", "t", "h", "i", "n", "k", ">">>

\* Outputs of the model: no think block, one in the middle, one at the start,
\* two with text between them, and two with none.
Outputs ==
    {<<"a", "b">>,
     <<"a">> \o OpenTag \o <<"x">> \o CloseTag \o <<"b">>,
     OpenTag \o <<"x">> \o CloseTag \o <<"b">>,
     OpenTag \o <<"x">> \o CloseTag \o <<"b">> \o OpenTag \o <<"y">> \o CloseTag,
     OpenTag \o <<"x">> \o CloseTag \o OpenTag \o <<"y">> \o CloseTag}

\* The ways to deliver text in at most MaxPieces chunks, none of them empty.
RECURSIVE Pieces(_, _)
Pieces(text, n) ==
    IF text = << >> THEN {<< >>}
    ELSE IF n = 1 THEN {<<text>>}
    ELSE {<<text>>} \cup
         UNION {{<<SubSeq(text, 1, k)>> \o rest : rest \in Pieces(SubSeq(text, k + 1, Len(text)), n - 1)} :
                  k \in 1..(Len(text) - 1)}

\* s.find(sub) + 1: the position of the first occurrence, 0 when there is none
IndexOf(sub, s) ==
    LET hits == {i \in 1..(Len(s) - Len(sub) + 1) : SubSeq(s, i, i + Len(sub) - 1) = sub} IN
    IF hits = {} THEN 0 ELSE CHOOSE i \in hits : \A j \in hits : i <= j

\* sub in s
In(sub, s) == IndexOf(sub, s) # 0

\* s.split(sub, 1)[0] and s.split(sub, 1)[1], for sub in s
Before(sub, s) == SubSeq(s, 1, IndexOf(sub, s) - 1)
After(sub, s) == SubSeq(s, IndexOf(sub, s) + Len(sub), Len(s))

\* Lines 104-107 with a closing tag in front of the first opening tag: pre
\* keeps the closing tag and post the opening one, so both tags stay in the
\* buffer and the condition of the while loop never becomes false.
Hangs(buffer) ==
    /\ In(OpenTag, buffer) /\ In(CloseTag, buffer)
    /\ IndexOf(CloseTag, buffer) < IndexOf(OpenTag, buffer)

\* Lines 104-107: the while loop. It ends ("no") with the think blocks taken
\* out; with a closing tag directly in front of the first opening tag the
\* buffer stays as it is and the loop runs for ever ("forever"); with text
\* between the two the text is doubled in every round until an allocation
\* raises MemoryError ("memory"), the buffer being what the last round that
\* succeeded left, which the buffer the loop began with stands for.
RECURSIVE Collapse(_)
Collapse(buffer) ==
    IF Hangs(buffer)
    THEN [hung |-> IF IndexOf(OpenTag, buffer) = IndexOf(CloseTag, buffer) + Len(CloseTag)
                   THEN "forever" ELSE "memory",
          buffer |-> buffer]
    ELSE IF In(OpenTag, buffer) /\ In(CloseTag, buffer)
    THEN Collapse(Before(OpenTag, buffer) \o After(CloseTag, buffer))
    ELSE [hung |-> "no", buffer |-> buffer]

\* Lines 109-111
AtOpen(is_active, buffer) ==
    IF In(OpenTag, buffer) THEN [is_active |-> FALSE, buffer |-> Before(OpenTag, buffer)]
    ELSE [is_active |-> is_active, buffer |-> buffer]

\* Lines 113-115
AtClose(is_active, buffer) ==
    IF In(CloseTag, buffer) THEN [is_active |-> TRUE, buffer |-> After(CloseTag, buffer)]
    ELSE [is_active |-> is_active, buffer |-> buffer]

\* A chunk of the stream: delta.content (<< >> for None and for "") and
\* whether delta.tool_calls holds anything.
Chunk(content, tool_calls) == [content |-> content, tool_calls |-> tool_calls]

\* What one yield gives: the string buffer (lines 120-121 without
\* include_tools), or with include_tools the pair (buffer, None) of line 119,
\* (None, tool_calls) of line 98 or (None, None) of line 127. None is << >>.
YieldText(include_tools, buffer) ==
    [pair |-> include_tools, content |-> <<buffer>>, tool_calls |-> FALSE]
YieldTools == [pair |-> TRUE, content |-> << >>, tool_calls |-> TRUE]
YieldNone == [pair |-> TRUE, content |-> << >>, tool_calls |-> FALSE]

\* Lines 92-127: the body of the for loop for one chunk. With include_tools a
\* chunk with tool_calls yields them and its content is skipped; a chunk
\* without content changes nothing. A MemoryError of the while loop is caught
\* at line 124: is_active and the buffer stay as the loop left them, and
\* (None, None) is yielded with include_tools, nothing without.
Body(include_tools, is_active, buffer, chunk) ==
    LET c == Collapse(buffer \o chunk.content)
        a == AtOpen(is_active, c.buffer)
        b == AtClose(a.is_active, a.buffer)
        yields == b.is_active /\ b.buffer # << >>
    IN IF include_tools /\ chunk.tool_calls
       THEN [hung |-> "no", is_active |-> is_active, yielded |-> <<YieldTools>>, buffer |-> buffer]
       ELSE IF chunk.content = << >>
       THEN [hung |-> "no", is_active |-> is_active, yielded |-> << >>, buffer |-> buffer]
       ELSE IF c.hung = "forever"
       THEN [hung |-> c.hung, is_active |-> is_active, yielded |-> << >>, buffer |-> c.buffer]
       ELSE IF c.hung = "memory"
       THEN [hung |-> c.hung, is_active |-> is_active,
             yielded |-> IF include_tools THEN <<YieldNone>> ELSE << >>,
             buffer |-> c.buffer]
       ELSE [hung |-> c.hung,
             is_active |-> b.is_active,
             yielded |-> IF yields THEN <<YieldText(include_tools, b.buffer)>> ELSE << >>,
             buffer |-> IF yields THEN << >> ELSE b.buffer]

\* One iteration of the for loop of _stream_chunks; the for loop goes on to
\* the next chunk unless the while loop runs for ever.
ST_Chunk ==
    /\ o_pc = "loop"
    /\ o_chunks # << >>
    /\ LET r == Body(o_include_tools, o_is_active, o_buffer, Head(o_chunks)) IN
         /\ o_pc' = IF r.hung = "forever" THEN "hung" ELSE o_pc
         /\ o_is_active' = r.is_active
         /\ o_buffer' = r.buffer
         /\ o_yielded' = o_yielded \o r.yielded
    /\ o_chunks' = Tail(o_chunks)
    /\ UNCHANGED <<o_text, o_include_tools, o_is_qwen3, o_use_ollama_client, o_heap, o_first, o_sent, o_calls>>
    /\ OllamaOnly

\* The stream is exhausted: the generator ends.
ST_End ==
    /\ o_pc = "loop"
    /\ o_chunks = << >>
    /\ o_pc' = "done"
    /\ UNCHANGED <<o_text, o_chunks, o_include_tools, o_is_active, o_buffer, o_yielded, o_is_qwen3, o_use_ollama_client, o_heap,
                   o_first, o_sent, o_calls>>
    /\ OllamaOnly

\* The streams that deliver text: its pieces as the contents of chunks, each
\* with or without tool_calls, and possibly one chunk without content among
\* them.
ChunkStreams(text) ==
    LET tagged == UNION {{[i \in 1..Len(p) |-> Chunk(p[i], t[i])] : t \in [1..Len(p) -> BOOLEAN]} :
                           p \in Pieces(text, MaxPieces)}
    IN tagged \cup
       UNION {{SubSeq(s, 1, k) \o <<Chunk(<< >>, t)>> \o SubSeq(s, k + 1, Len(s)) :
                 k \in 0..Len(s), t \in BOOLEAN} : s \in tagged}

\* Lines 88-89, with the stream of one output
ThinkInit ==
    /\ o_pc = "loop"
    /\ o_text \in Outputs
    /\ o_chunks \in ChunkStreams(o_text)
    /\ o_include_tools \in BOOLEAN
    /\ o_is_active = TRUE /\ o_buffer = << >> /\ o_yielded = << >>
    /\ o_is_qwen3 = FALSE /\ o_use_ollama_client = FALSE
    /\ o_heap = << >> /\ o_first = << >> /\ o_sent = << >> /\ o_calls = 0

NextThink == ST_Chunk \/ ST_End

InitThink ==
    /\ ThinkInit /\ AliyunParked /\ WhisperParked /\ WhisperXParked /\ FramingParked
    /\ StreamParked /\ SherpaParked /\ QueueParked /\ GeminiParked /\ IntentParked

SpecThink == InitThink /\ [][NextThink]_vars

\* ---- _inject_no_think ----
Roles == {"system", "user", "assistant"}

\* A message as its author wrote it.
Message(role) == [role |-> role, content |-> <<role>>]

\* The position of the last user message, 0 when there is none: the loop of
\* lines 80-84 runs from the end.
LastUser(dialogue) ==
    LET users == {i \in DOMAIN dialogue : dialogue[i].role = "user"} IN
    IF users = {} THEN 0 ELSE CHOOSE i \in users : \A j \in users : j <= i

\* _inject_no_think: dialogue.copy() makes a new list of the same dicts, and
\* line 82 assigns into the dict. heap is the dicts of the caller's list; the
\* result is the list returned, as the client will read it, and the dicts
\* after the call.
InjectNoThink(heap) ==
    LET after == IF LastUser(heap) = 0 THEN heap
                 ELSE [heap EXCEPT ![LastUser(heap)].content = <<"/no_think ">> \o @]
    IN [dialogue_copy |-> after, heap |-> after]

\* response, lines 36-49: the request is made with the dialogue, for a qwen3
\* model with the one _inject_no_think returned, through either client.
O_Response ==
    /\ o_calls < MaxResponses
    /\ o_calls' = o_calls + 1
    /\ IF o_is_qwen3
       THEN /\ o_sent' = InjectNoThink(o_heap).dialogue_copy
            /\ o_heap' = InjectNoThink(o_heap).heap
       ELSE /\ o_sent' = o_heap
            /\ UNCHANGED o_heap
    /\ UNCHANGED <<o_pc, o_text, o_chunks, o_include_tools, o_is_active, o_buffer, o_yielded, o_is_qwen3,
                   o_use_ollama_client, o_first>>
    /\ OllamaOnly

\* response_with_functions, lines 55-70: _inject_no_think for a qwen3 model,
\* then with the Ollama client no request at all, else the request with the
\* dialogue and the tools.
O_ResponseWithFunctions ==
    /\ o_calls < MaxResponses
    /\ o_calls' = o_calls + 1
    /\ o_heap' = IF o_is_qwen3 THEN InjectNoThink(o_heap).heap ELSE o_heap
    /\ o_sent' = IF o_use_ollama_client THEN o_sent
                 ELSE IF o_is_qwen3 THEN InjectNoThink(o_heap).dialogue_copy
                 ELSE o_heap
    /\ UNCHANGED <<o_pc, o_text, o_chunks, o_include_tools, o_is_active, o_buffer, o_yielded, o_is_qwen3,
                   o_use_ollama_client, o_first>>
    /\ OllamaOnly

\* The caller appends a message to its dialogue between two calls.
O_Append ==
    /\ Len(o_heap) < MaxMessages
    /\ \E role \in Roles :
         /\ o_heap' = Append(o_heap, Message(role))
         /\ o_first' = Append(o_first, Message(role))
    /\ UNCHANGED <<o_pc, o_text, o_chunks, o_include_tools, o_is_active, o_buffer, o_yielded, o_is_qwen3,
                   o_use_ollama_client, o_sent, o_calls>>
    /\ OllamaOnly

\* __init__, line 34, and a dialogue of the caller
OllamaInit ==
    /\ o_is_qwen3 \in BOOLEAN
    /\ o_use_ollama_client \in BOOLEAN
    /\ o_heap \in UNION {[1..n -> {Message(r) : r \in Roles}] : n \in 1..(MaxMessages - 1)}
    /\ o_first = o_heap
    /\ o_sent = << >> /\ o_calls = 0
    /\ o_pc = "idle" /\ o_text = << >> /\ o_chunks = << >> /\ o_include_tools = FALSE /\ o_is_active = TRUE
    /\ o_buffer = << >> /\ o_yielded = << >>

NextOllama == O_Response \/ O_ResponseWithFunctions \/ O_Append

InitOllama ==
    /\ OllamaInit /\ AliyunParked /\ WhisperParked /\ WhisperXParked /\ FramingParked
    /\ StreamParked /\ SherpaParked /\ QueueParked /\ GeminiParked /\ IntentParked

SpecOllama == InitOllama /\ [][NextOllama]_vars

(***************************************************************************)
(* intent_llm.py: detect_intent and the intent cache                        *)
(***************************************************************************)
\* Calls of detect_intent in one behaviour.
MaxDetects == 2

\* conn.device_id and the user's text, as sequences of characters.
DeviceIds == {<<"d">>, <<"d", "1">>}
UserTexts == {<<"1", "o", "n">>, <<"o", "n">>}

\* Lines 101 and 171
ContinueChat == "{\"function_call\": {\"name\": \"continue_chat\"}}"

\* What the model answers.
CallJson == "{\"function_call\": {\"name\": \"get_time\"}}"
WrappedJson == "Sure: {\"function_call\": {\"name\": \"get_time\"}}\n"
OtherJson == "{\"function_calls\": []}"
BadCallJson == "{\"function_call\": \"get_time\"}"
NumberJson == "123"
Prose == "I cannot help with that"
LlmOutputs == {CallJson, ContinueChat, WrappedJson, OtherJson, BadCallJson, NumberJson, Prose}

\* Lines 151-153: strip, then the text from the first "{" to the last "}" if
\* there is one, else the whole answer.
Extract(raw) == IF raw = WrappedJson THEN CallJson ELSE raw

\* Line 156 and what lines 159-168 do with the value: json.loads raises
\* ("error"); or it returns a dict with a function_call dict ("call",
\* "continue"), a dict without function_call ("no_call"), a dict whose
\* function_call is no dict ("call_not_dict"), or a value that is no
\* container ("scalar").
Parse(intent_json) ==
    CASE intent_json = CallJson -> "call"
      [] intent_json = ContinueChat -> "continue"
      [] intent_json = OtherJson -> "no_call"
      [] intent_json = BadCallJson -> "call_not_dict"
      [] intent_json = NumberJson -> "scalar"
      [] OTHER -> "error"

\* Lines 159-168 raise for these: "function_call" in 123 is a TypeError,
\* "get_time".get an AttributeError; neither is a JSONDecodeError.
RaisesAfterStore(parse) == parse \in {"call_not_dict", "scalar"}

\* hashlib.md5(s).hexdigest(), taken to be free of collisions: the digest
\* stands for the string that was hashed.
Md5(s) == <<"md5">> \o s

\* Line 107: the key is the digest of device_id + text.
CacheKey(device_id, text) == Md5(device_id \o text)

\* cache_manager.get: the value stored under the key, "" for None.
Get(cache, key) ==
    IF \E e \in cache : e.key = key THEN (CHOOSE e \in cache : e.key = key).value ELSE ""

\* cache_manager.set
Set(cache, key, value) == {e \in cache : e.key # key} \cup {[key |-> key, value |-> value]}

\* __init__, lines 12-19, of a provider made later in the process: it has no
\* LLM yet, and its cache_manager is the one object of the module
\* core.utils.cache.manager, with the entries stored so far.
I_New ==
    /\ i_llm
    /\ i_llm' = FALSE
    /\ UNCHANGED <<i_cache, i_origin, i_returned, i_last, i_calls>>
    /\ IntentOnly

\* The owner of the provider gives it its LLM (set_llm of the base class).
I_SetLlm ==
    /\ ~i_llm
    /\ i_llm' = TRUE
    /\ UNCHANGED <<i_cache, i_origin, i_returned, i_last, i_calls>>
    /\ IntentOnly

\* One call of detect_intent, lines 97-171. There is no await in it. Without
\* an LLM it raises ValueError (lines 98-99) before it looks at func_handler
\* or at the cache.
I_Detect ==
    /\ i_calls < MaxDetects
    /\ i_calls' = i_calls + 1
    /\ \E device \in DeviceIds, text \in UserTexts, has_handler \in BOOLEAN,
          llm_raises \in BOOLEAN, raw \in LlmOutputs :
         LET key == CacheKey(device, text)
             cached == Get(i_cache, key)
             intent_json == Extract(raw)
             parse == Parse(intent_json)
             this == [device |-> device, text |-> text, key |-> key, hit |-> FALSE,
                      llm_called |-> FALSE, stored |-> FALSE, parse |-> "none",
                      outcome |-> "returned", value |-> ""]
         IN
         IF ~i_llm
         THEN /\ i_last' = [this EXCEPT !.outcome = "raised"]
              /\ UNCHANGED <<i_cache, i_origin, i_returned>>
         ELSE IF ~has_handler
         THEN /\ i_last' = [this EXCEPT !.value = ContinueChat]
              /\ UNCHANGED <<i_cache, i_origin, i_returned>>
         ELSE IF cached # ""
         THEN /\ i_last' = [this EXCEPT !.hit = TRUE, !.value = cached]
              /\ UNCHANGED <<i_cache, i_origin, i_returned>>
         ELSE IF llm_raises
         THEN /\ i_last' = [this EXCEPT !.llm_called = TRUE, !.outcome = "raised"]
              /\ UNCHANGED <<i_cache, i_origin, i_returned>>
         ELSE IF parse = "error"
         THEN /\ i_last' = [this EXCEPT !.llm_called = TRUE, !.parse = parse,
                                        !.value = ContinueChat]
              /\ UNCHANGED <<i_cache, i_origin, i_returned>>
         ELSE /\ i_cache' = Set(i_cache, key, intent_json)
              /\ i_origin' = {o \in i_origin : o.key # key}
                               \cup {[key |-> key, device |-> device, text |-> text]}
              /\ IF RaisesAfterStore(parse)
                 THEN /\ i_last' = [this EXCEPT !.llm_called = TRUE, !.stored = TRUE,
                                                !.parse = parse, !.outcome = "raised"]
                      /\ UNCHANGED i_returned
                 ELSE /\ i_last' = [this EXCEPT !.llm_called = TRUE, !.stored = TRUE,
                                                !.parse = parse, !.value = intent_json]
                      /\ i_returned' = i_returned \cup {[key |-> key, value |-> intent_json]}
    /\ UNCHANGED i_llm
    /\ IntentOnly

\* __init__, lines 12-19 (self.llm = None), with an empty cache
IntentInit ==
    /\ i_cache = {} /\ i_origin = {} /\ i_returned = {} /\ i_calls = 0 /\ i_llm = FALSE
    /\ i_last = [device |-> << >>, text |-> << >>, key |-> << >>, hit |-> FALSE, llm_called |-> FALSE,
                 stored |-> FALSE, parse |-> "none", outcome |-> "none", value |-> ""]

NextIntent == I_New \/ I_SetLlm \/ I_Detect

InitIntent ==
    /\ IntentInit /\ AliyunParked /\ WhisperParked /\ WhisperXParked /\ FramingParked
    /\ StreamParked /\ SherpaParked /\ QueueParked /\ GeminiParked /\ OllamaParked

SpecIntent == InitIntent /\ [][NextIntent]_vars

(***************************************************************************)
(* Properties                                                               *)
(***************************************************************************)
BackendFailed(c) == call[c].status \in {"exception", "decode_exception"}

\* C1: when the backend call fails (an exception while decoding or while
\* calling the backend), speech_to_text surfaces an error outcome; a failure
\* is never returned as the text "".
C1_FailureIsNotEmptyText ==
    \A c \in Calls : BackendFailed(c) => call[c].result # "empty"

\* C2: every speech_to_text call ends by returning a (text, path) pair; no
\* failure inside the call, a credential refresh failure included, leaves it
\* as an exception.
C2_AlwaysReturnsPair ==
    \A c \in Calls : pc[c] = "done" => call[c].result \in {"text", "empty"}

AllOSError(log) == \A i \in 1..Len(log) : log[i].cls = "OSError"

\* C3: a backend that raises OSError on every attempt is attempted exactly
\* MAX_RETRIES times: while fewer attempts were made the loop goes on, after
\* MAX_RETRIES it has stopped, and no utterance gets more.
C3_ExactlyMaxRetriesAttempts ==
    /\ Len(w_log) <= MAX_RETRIES
    /\ (w_log # << >> /\ AllOSError(w_log)) =>
          (w_pc = "attempt" <=> Len(w_log) < MAX_RETRIES)

C3_Witness ==
    /\ w_pc = "done"
    /\ Len(w_log) = MAX_RETRIES
    /\ AllOSError(w_log)

\* C4: when every attempt raised a transient error and the retries are
\* exhausted, the call yields an error, not empty text.
C4_ExhaustedYieldsError ==
    (w_pc = "done" /\ Len(w_log) = MAX_RETRIES /\ AllOSError(w_log))
        => w_result = "error"

\* C5: an exception that is not an OSError ends the utterance in the attempt
\* it occurs in: it is the last attempt, whatever retry_count is.
C5_NonTransientNotRetried ==
    \A i \in 1..Len(w_log) :
        w_log[i].cls = "Exception" => (i = Len(w_log) /\ w_pc # "attempt")

C5_Witness ==
    /\ w_pc = "done"
    /\ w_log # << >>
    /\ w_log[Len(w_log)].cls = "Exception"
    /\ retry_count < MAX_RETRIES
    /\ w_result = "empty"

\* C6: in keyed mode, with the token's expiry at the instant T,
\* _is_token_expired is false at every clock reading before T - 60 and true
\* at every reading after it.
C6_ExpiredExactlyAfterMargin ==
    (keyed /\ granted.k \in {"digits", "iso"}) =>
        \A t \in ClockReadings :
            /\ t < granted.T - SafetyMargin => ~IsTokenExpired(expire_time, t)
            /\ t > granted.T - SafetyMargin => IsTokenExpired(expire_time, t)

\* C7: whether ExpireTime came as a Unix timestamp or as an ISO-8601 UTC
\* string, the stored expire_time is epoch(T) - 60, in every host time zone.
C7_StoredExpiryIsEpochMinusMargin ==
    (keyed /\ granted.k \in {"digits", "iso"}) =>
        expire_time = <<granted.T - SafetyMargin>>

InRefresh(c) == pc[c] \in {"refresh_token", "refresh_expire"}

\* C8: in static mode _is_token_expired is false at every clock reading, no
\* call enters _refresh_token, and the configured token stays in place.
C8_StaticTokenNeverExpires ==
    ~keyed =>
        /\ \A t \in ClockReadings : ~IsTokenExpired(expire_time, t)
        /\ \A c \in Calls : ~InRefresh(c) /\ ~call[c].expired /\ ~call[c].refreshed
        /\ token = StaticToken
        /\ expire_time = None

C8_Witness ==
    /\ ~keyed
    /\ now > SafetyMargin
    /\ \E c \in Calls :
         pc[c] = "done" /\ call[c].sent /\ call[c].hdrTok = StaticToken

\* C9: in keyed mode a request is sent only after the call's expiry check,
\* and when the check found the token expired, only after a refresh of this
\* call wrote a token and an expiry; the request then carries that token,
\* not the one found expired.
C9_RefreshBeforeRequest ==
    keyed =>
        \A c \in Calls :
            /\ call[c].sent => pc[c] \in {"await_resp", "done"}
            /\ (call[c].sent /\ call[c].expired) =>
                  /\ call[c].refreshed
                  /\ ~FalsyToken(call[c].hdrTok)
                  /\ call[c].hdrTok # call[c].tokAtCheck

C9_Witness ==
    /\ keyed
    /\ \E c \in Calls :
         /\ pc[c] = "await_resp"
         /\ call[c].expired /\ call[c].refreshed /\ call[c].sent
         /\ call[c].hdrTok = token

\* C10: two calls that both find the token expired refresh one after the
\* other: at most one call is inside _refresh_token, it holds the event loop,
\* and while it is between its two writes no other call can make the expiry
\* check or read the token for its request.
C10_RefreshSerialized ==
    \A c \in Calls :
        /\ InRefresh(c) =>
              /\ running = c
              /\ \A d \in Calls \ {c} : ~InRefresh(d)
        /\ pc[c] = "refresh_expire" =>
              \A d \in Calls \ {c} : ~ENABLED CheckToken(d) /\ ~ENABLED Decode(d)

C10_Witness ==
    \E c, d \in Calls :
        /\ c # d
        /\ pc[c] = "refresh_expire"
        /\ call[c].expired /\ call[d].expired
        /\ pc[d] = "await_resp"

\* C11: a refresh that returns normally got a reply with a token and with an
\* expiry that is all digits or a YYYY-MM-DDTHH:MM:SSZ string, and leaves that
\* token with the expiry converted from it; with no expiry, a malformed expiry
\* or no token the refresh raises.
C11_RefreshFailsWithoutTokenOrExpiry ==
    \A c \in Calls :
        /\ (keyed /\ call[c].expired /\ pc[c] = "decode") =>
              /\ ~FalsyToken(token)
              /\ call[c].expire_time_str.k \in {"digits", "iso"}
              /\ expire_time # None
              /\ expire_time = ParseExpire(call[c].expire_time_str, tz)
        /\ (keyed /\ pc[c] = "refresh_expire") => call[c].expire_time_str.k # "none"

C11_Witness ==
    \E c \in Calls :
        /\ keyed
        /\ pc[c] = "done"
        /\ call[c].result = "raised"
        /\ call[c].expire_time_str.k = "bad"
        /\ ~FalsyToken(token)

\* C12: a response with a status other than 20000000, or with a body that is
\* not JSON, makes speech_to_text return empty text and the path of the saved
\* file, without raising, after a single POST.
C12_BadStatusGivesEmptyText ==
    \A c \in Calls :
        /\ call[c].posts <= 1
        /\ (pc[c] = "done" /\ call[c].status \in {"bad_status", "not_json"}) =>
              /\ call[c].result = "empty"
              /\ call[c].file_path = SavedPath(delete_audio_file)
              /\ call[c].posts = 1

C12_Witness ==
    \E c \in Calls :
        /\ pc[c] = "done"
        /\ call[c].status = "bad_status"
        /\ call[c].file_path = "saved"
        /\ call[c].result = "empty"

\* The POSTs of one utterance: at most two, the first with field "file"; a
\* second one is made exactly when the first was answered 422 with a body
\* that mentions the field, and it uses field "audio".
FallbackPosts ==
    /\ Len(x_posts) <= 2
    /\ Len(x_replies) <= Len(x_posts)
    /\ x_posts # << >> => x_posts[1] = "file"
    /\ x_replies # << >> =>
          LET first == x_replies[1] IN
          IF first.status = 422 /\ first.body # {}
          THEN Len(x_posts) = 2 /\ x_posts[2] = "audio"
          ELSE Len(x_posts) = 1

\* C13: the field fallback makes at most two POSTs (the second one, with field
\* "audio", only after a 422 that mentions the field), and when the second POST
\* is not answered 200 either the utterance ends as a hard failure.
C13_FallbackOnceThenHardFailure ==
    /\ FallbackPosts
    /\ (x_pc = "done" /\ Len(x_replies) = 2 /\ x_replies[2].status # 200) =>
          x_result[1].raised

\* C14: PCM of less than 0.35 s (11200 bytes) is answered with empty text
\* before any POST and before any temp file; PCM of at least 0.35 s passes the
\* duration gate and a POST is made.
C14_ShortUtteranceRejectedBeforeRequest ==
    (x_pc # "idle" /\ x_input.type # "other") =>
        IF PcmLen(x_pcm) < 11200
        THEN /\ x_pc = "done"
             /\ x_result = Returned(<< >>)
             /\ x_posts = << >>
             /\ x_tmp = "none" /\ ~x_tmp_path
        ELSE x_posts # << >>

C14_Witness ==
    /\ x_pc = "done"
    /\ x_save_tmp_wav
    /\ x_input.type = "bytes" /\ x_input.fmt = "pcm"
    /\ PcmLen(x_pcm) = 11199
    /\ x_result = Returned(<< >>)

\* The transcript of the answer that ended the utterance, as the server sent it.
Answered == x_pc = "done" /\ x_replies # << >> /\ x_replies[Len(x_replies)].status = 200
Transcript == x_replies[Len(x_replies)].data.text

\* C15: for an answer with a transcript and without a zero segment count, the
\* returned text is empty when the stripped, lower-cased transcript is empty,
\* shorter than 2 characters or a filler, and the stripped transcript otherwise.
C15_TextGate ==
    (Answered /\ ~x_replies[Len(x_replies)].data.has_segments
              /\ x_replies[Len(x_replies)].data.num_segments # <<0>>) =>
        LET t == Lower(Strip(Transcript)) IN
        x_result[1].text =
            IF t = << >> \/ Len(t) < 2 \/ t \in fillers THEN << >> ELSE Strip(Transcript)

C15_Witness ==
    /\ Answered
    /\ Transcript = <<"U", "m", " ">>
    /\ x_replies[Len(x_replies)].data.num_segments = << >>
    /\ x_result[1].text = << >>

\* C19: the decoded PCM is the decoded frames of exactly the packets that are
\* not empty and decode without error, in packet order; the other packets add
\* nothing and stop nothing.
C19_DecodeKeepsGoodPacketsInOrder ==
    (x_pc # "idle" /\ x_input.type = "list") =>
        LET good == {i \in 1..Len(x_input.pkts) : x_input.pkts[i] = "good"} IN
        /\ Len(x_pcm) = Cardinality(good)
        /\ \A j \in 1..Len(x_pcm) : x_pcm[j].src \in good /\ x_pcm[j] = Frame(x_pcm[j].src)
        /\ \A j, k \in 1..Len(x_pcm) : j < k => x_pcm[j].src < x_pcm[k].src

C19_Witness ==
    /\ x_pc = "post_file"
    /\ x_input.type = "list"
    /\ x_input.pkts = <<"good", "corrupt", "good", "good", "good", "good", "good">>
    /\ Len(x_pcm) = 6

\* C16: _pcm16_to_wav gives 44 + len(pcm) bytes: "RIFF", 36 + len, "WAVE",
\* "fmt ", 16, format 1, 1 channel, the rate, byte rate = rate * channels *
\* bits / 8, block align = channels * bits / 8, the bits, "data", len, and then
\* the PCM bytes as they were.
C16_WrapLayout ==
    (f_pc # "idle" /\ f_writer.by = "whisperx") =>
        /\ Len(f_wav) = 44 + Len(f_pcm)
        /\ SubSeq(f_wav, 1, 4) = TagRIFF
        /\ UnpackI(f_wav, 5) = 36 + Len(f_pcm)
        /\ SubSeq(f_wav, 9, 12) = TagWAVE
        /\ SubSeq(f_wav, 13, 16) = TagFmt
        /\ UnpackI(f_wav, 17) = 16
        /\ UnpackH(f_wav, 21) = 1
        /\ UnpackH(f_wav, 23) = 1
        /\ UnpackI(f_wav, 25) = 16000
        /\ UnpackI(f_wav, 29) = (16000 * 1 * 16) \div 8
        /\ UnpackH(f_wav, 33) = (1 * 16) \div 8
        /\ UnpackH(f_wav, 35) = 16
        /\ SubSeq(f_wav, 37, 40) = TagData
        /\ UnpackI(f_wav, 41) = Len(f_pcm)
        /\ SubSeq(f_wav, 45, Len(f_wav)) = f_pcm
        /\ \A i \in 1..Len(f_wav) : f_wav[i] \in 0..255

C16_Witness ==
    /\ f_pc = "wrapped"
    /\ f_writer.by = "whisperx"
    /\ f_pcm = <<1, 128, 255, 0>>
    /\ Len(f_wav) = 48

\* A buffer of whole 16-bit samples in a container of the pipeline's format.
ValidMono16 ==
    /\ Len(f_pcm) % 2 = 0
    /\ f_writer.fmt = PipelineFormat

\* C17: reading back the container written for a valid mono 16-bit buffer
\* gives the bytes of the buffer, and as samples the little-endian signed
\* 16-bit values of its byte pairs, as many and in the same order.
C17_ContainerRoundTrip ==
    (f_pc = "done" /\ ValidMono16) =>
        /\ f_read.ok
        /\ f_read.frames = f_pcm
        /\ Len(f_read.samples) = Len(f_pcm) \div 2
        /\ \A i \in 1..Len(f_read.samples) :
              LET v == f_pcm[2 * i - 1] + 256 * f_pcm[2 * i] IN
              /\ f_read.samples[i] \in -32768..32767
              /\ (f_read.samples[i] - v) % 65536 = 0

C17_Witness ==
    /\ f_pc = "done"
    /\ f_writer.by = "whisperx"
    /\ f_reader = "shepra_streaming"
    /\ f_pcm = <<255, 255, 0, 128>>
    /\ f_read.samples = <<-1, -32768>>

\* C18: read_wave of every backend fails for a container that is not mono or
\* whose samples are not 2 bytes wide; in a backend whose speech_to_text
\* unwraps the container the utterance then ends with empty text and no
\* samples reach the recognizer.
C18_UnwrapRejectsOtherFormats ==
    (f_pc = "done" /\ (f_writer.fmt.nchannels # 1 \/ f_writer.fmt.sampwidth # 2)) =>
        /\ ~f_read.ok
        /\ f_accepted = << >>
        /\ f_reader \in Unwrappers => f_result = "empty"

C18_Witness ==
    /\ f_pc = "done"
    /\ f_reader = "sherpa_onnx_local"
    /\ f_writer.fmt.nchannels = 1 /\ f_writer.fmt.sampwidth = 1
    /\ f_pcm # << >>
    /\ f_result = "empty"

\* The binary messages carry the samples in order, each from where the one
\* before ended, and "Done" is the last message if it was sent.
ChunksThenDone ==
    /\ \A i \in 1..Len(s_sent) : s_sent[i].kind = "Done" => i = Len(s_sent)
    /\ \A i \in 1..Len(s_sent) :
          s_sent[i].kind = "binary" =>
             /\ s_sent[i].from = (IF i = 1 THEN 0 ELSE s_sent[i - 1].to)
             /\ s_sent[i].from <= s_sent[i].to
             /\ i > 1 => s_sent[i].from < s_sent[i].to
    /\ s_pc \in {"await_result"} =>
          /\ s_sent # << >> /\ s_sent[Len(s_sent)] = Done
          /\ Len(s_sent) > 1 => s_sent[Len(s_sent) - 1].to = s_n

\* C20 as stated: of every utterance sent, the first message carries the
\* 8-byte header, no other message does, the chunks follow in increasing
\* offset order, and "Done" is sent once, as the last message.
C20_HeaderFirstThenChunksThenDone ==
    s_variant \in Variants =>
       /\ ChunksThenDone
       /\ s_sent # << >> => s_sent[1].header = Header(s_n)
       /\ \A i \in 2..Len(s_sent) : s_sent[i].header = << >>

\* What holds of shepra_streaming, which begins its first message with the
\* header.
C20_OfflineHeaderFirst ==
    s_variant = "shepra_streaming" => C20_HeaderFirstThenChunksThenDone

\* What shepra_streaming_online sends: the chunks and "Done" in the same
\* order, and no header in any message.
C20_OnlineSendsNoHeader ==
    s_variant = "shepra_streaming_online" =>
       /\ ChunksThenDone
       /\ \A i \in 1..Len(s_sent) : s_sent[i].header = << >>

\* The bytes of one message's samples: tobytes() of the float32 slice
\* data[from:to].
SampleBytes(m) == (m.to - m.from) * 4

RECURSIVE SentSampleBytes(_)
SentSampleBytes(msgs) ==
    IF msgs = << >> THEN 0
    ELSE (IF Head(msgs).kind = "binary" THEN SampleBytes(Head(msgs)) ELSE 0)
         + SentSampleBytes(Tail(msgs))

\* The samples a sequence of messages carries, as the sequence of their
\* indices in the buffer.
RECURSIVE SentSamples(_)
SentSamples(msgs) ==
    IF msgs = << >> THEN << >>
    ELSE (IF Head(msgs).kind = "binary"
          THEN [k \in 1..(Head(msgs).to - Head(msgs).from) |-> Head(msgs).from + k - 1]
          ELSE << >>)
         \o SentSamples(Tail(msgs))

\* C21: once "Done" is sent, the total byte count of the header of
\* shepra_streaming equals the sample bytes sent in the binary messages, and
\* the binary messages partition the buffer: every sample once, in order, no
\* chunk longer than samples_per_message.
C21_HeaderCountsWhatIsSent ==
    (s_sent # << >> /\ s_sent[Len(s_sent)] = Done) =>
       /\ s_variant = "shepra_streaming" =>
             /\ s_sent[1].header # << >>
             /\ s_sent[1].header[1].total_bytes = SentSampleBytes(s_sent)
       /\ SentSamples(s_sent) = [k \in 1..s_n |-> k - 1]
       /\ \A i \in 1..Len(s_sent) :
             s_sent[i].kind = "binary" => s_sent[i].to - s_sent[i].from <= s_samples_per_message

C21_Witness ==
    /\ s_variant = "shepra_streaming"
    /\ s_samples_per_message = 3
    /\ s_pc = "await_result"
    /\ s_sent = <<Binary(Header(4), 0, 3), Binary(<< >>, 3, 4), Done>>
    /\ s_sent[1].header[1].total_bytes = 16

\* The text a backend makes of one message: the "text" of a JSON message; of a
\* message that is not JSON, the message itself (shepra_streaming) or nothing
\* (shepra_streaming_online).
TextOf(variant, m) ==
    IF IsJson(m) THEN m ELSE IF variant = "shepra_streaming" THEN m ELSE ""

\* A call that sent "Done" and returned what the receiver task gave.
Answered_Stream ==
    /\ s_pc = "returned"
    /\ s_sent # << >> /\ s_sent[Len(s_sent)] = Done
    /\ s_result # "cancelled"

\* C22 as stated: the result of a call is determined by the last message the
\* server sent before its "Done!" alone, whatever came earlier and whether it
\* came while chunks were being sent; with no message the text is empty.
C22_ResultIsLastMessage ==
    Answered_Stream =>
       LET msgs == s_received \o s_unread IN
       s_result = (IF msgs = << >> THEN "" ELSE TextOf(s_variant, msgs[Len(msgs)]))

\* What holds of shepra_streaming, whose receiver survives every message.
C22_OfflineResultIsLastMessage ==
    s_variant = "shepra_streaming" => C22_ResultIsLastMessage

\* C23: when a call of a socket backend (shepra_streaming,
\* shepra_streaming_online, whisper_ws) has ended, by a result, by an exception
\* of a send or of the receiver, or by cancellation, the connection it opened
\* is closed.
C23_ConnectionClosedAtExit ==
    s_pc \in {"returned", "idle"} => s_conn # "open"

C23_Witness ==
    /\ s_pc = "returned"
    /\ s_result = "cancelled"
    /\ s_conn = "closed"
    /\ s_recv = "finished"
    /\ s_sent # << >>

\* A call is in progress.
InCall == s_pc \in {"connect", "loop", "sleep", "await_result", "tcp_send", "tcp_recv"}

\* C24 as stated: every call of a socket backend ends, whatever the server
\* does, also when it neither sends its last message nor closes.
C24_EveryCallEnds == InCall ~> (s_pc = "returned")

\* The section of speech_to_text under model_lock, and that of switch_model.
InSection(t) == sh_pc[t] \in {"locked", "stream"}
InSwitch(t) == sh_pc[t] \in {"loading", "loaded"}

\* C25: a transcription holds model_lock from create_stream to the reading
\* of its result; no other thread transcribes or switches meanwhile, the handle
\* its stream was created on is still the active one while it is inside, and
\* the handle that decodes the stream is the one that created it.
C25_SwapAtomic ==
    \A t \in Threads :
       /\ (InSection(t) \/ InSwitch(t)) =>
             /\ sh_lock = t
             /\ \A u \in Threads \ {t} : ~InSection(u) /\ ~InSwitch(u)
       /\ sh_pc[t] = "stream" => sh_call[t].stream = <<sh_model>>
       /\ sh_call[t].decoder # << >> => sh_call[t].decoder = sh_call[t].stream

\* Thread 1 is inside the section on the old handle while thread 2 waits for
\* the lock to switch to another model.
C25_Witness ==
    /\ sh_pc[1] = "stream"
    /\ sh_pc[2] = "switch"
    /\ sh_call[2].new_model # sh_model
    /\ sh_call[1].stream = <<sh_model>>

\* C26 as stated: a call that decoded its utterance returns the decoded text,
\* whether or not the switch it triggered succeeded.
C26_TriggeringUtteranceKeepsText ==
    \A t \in Threads :
       (sh_pc[t] = "returned" /\ sh_call[t].text # << >>) =>
          sh_call[t].result = sh_call[t].text

\* C27: whenever model_lock is free, and for a transcription inside its
\* section, the active handle is the one loaded from current_model_dir, a
\* directory with a usable model.
C27_HandleMatchesCurrentDir ==
    (sh_lock = 0 \/ \E t \in Threads : InSection(t)) =>
       /\ sh_model \in Dirs
       /\ sh_model = sh_current_model_dir
       /\ sh_dirs[sh_model] = "ok"

\* A switch has failed in a directory with tokens.txt and no model file, and
\* the lock is free again.
C27_Witness ==
    /\ sh_lock = 0
    /\ \E t \in Threads :
          /\ sh_pc[t] = "returned"
          /\ sh_call[t].new_model \in Dirs
          /\ sh_call[t].new_model # sh_current_model_dir
          /\ sh_dirs[sh_call[t].new_model] = "no_model"
          /\ sh_tokens_path = sh_call[t].new_model

\* The languages with triggers, the directory of each, and whether a text
\* holds a trigger of a language.
Languages == {"english", "vietnamese"}
DirOf(L) ==
    IF L = "english" THEN "models/sherpa-onnx-sense-voice-zh-en-ja-ko-yue"
    ELSE "models/sherpa-onnx-zipformer-vi-int8-2025-04-20"
HasTrigger(text, L) ==
    \E i \in 1..Len(text) :
       LowerPhrase(text[i]) \in (IF L = "english" THEN en_triggers ELSE vi_triggers)

\* Thread t leaves the trigger detection of lines 221-229.
Detects(t) == sh_pc[t] = "decoded" /\ sh_pc'[t] # "decoded"

\* A text with a trigger of L, whose directory is not current_model_dir, makes
\* the call switch to the model of L.
Requests(t, L) ==
    (Detects(t) /\ HasTrigger(sh_call[t].text[1], L) /\ DirOf(L) # sh_current_model_dir) =>
       (sh_pc'[t] = "switch" /\ sh_call'[t].new_model = DirOf(L))

\* The active handle changes only in the load of a requested switch, to the
\* handle of the requested directory, fully loaded; a load in a usable directory
\* succeeds; current_model_dir is published after the handle, before the
\* triggering call returns; and a transcription decodes on the active handle.
SwitchTakesEffect ==
    /\ sh_model' # sh_model =>
          \E t \in Threads :
             /\ sh_pc[t] = "loading" /\ sh_pc'[t] = "loaded"
             /\ sh_model' = sh_call[t].new_model
             /\ sh_dirs[sh_model'] = "ok"
    /\ \A t \in Threads :
          /\ (sh_pc[t] = "loading" /\ sh_pc'[t] # "loading"
                /\ sh_dirs[sh_call[t].new_model] = "ok") =>
                (sh_pc'[t] = "loaded" /\ sh_model' = sh_call[t].new_model)
          /\ (sh_pc[t] = "loaded" /\ sh_pc'[t] # "loaded") =>
                /\ sh_pc'[t] = "returned"
                /\ sh_model' = sh_call[t].new_model
                /\ sh_current_model_dir' = sh_call[t].new_model
          /\ (sh_pc[t] = "stream" /\ sh_pc'[t] = "decoded") =>
                sh_call'[t].decoder = <<sh_model>>
    /\ sh_current_model_dir' # sh_current_model_dir => sh_model' = sh_current_model_dir'

\* C28 as stated: a decoded text with a trigger of a language L whose
\* directory differs from current_model_dir and loads switches the provider to
\* the model of L, for every such L; later transcriptions decode on it until
\* another switch, and the handle is published once loaded.
C28_TriggerSwitchesToItsLanguage ==
    [][/\ \A t \in Threads : \A L \in Languages :
             sh_dirs[DirOf(L)] = "ok" => Requests(t, L)
       /\ SwitchTakesEffect]_vars

\* The language a text switches to: English when it holds an English trigger,
\* else Vietnamese when it holds a Vietnamese one.
Detected(text) ==
    IF HasTrigger(text, "english") THEN "english"
    ELSE IF HasTrigger(text, "vietnamese") THEN "vietnamese" ELSE ""

\* C28, amended: the language of a text is English when it holds an English
\* trigger, else Vietnamese when it holds a Vietnamese one; a text whose
\* language has a directory other than current_model_dir switches the provider
\* to that model, and to no other; later transcriptions decode on it until
\* another switch, and the handle is published once loaded.
C28_DetectedLanguageSwitches ==
    [][/\ \A t \in Threads :
             Detects(t) =>
                /\ Detected(sh_call[t].text[1]) # "" =>
                      Requests(t, Detected(sh_call[t].text[1]))
                /\ sh_pc'[t] = "switch" =>
                      /\ Detected(sh_call[t].text[1]) # ""
                      /\ sh_call'[t].new_model = DirOf(Detected(sh_call[t].text[1]))
       /\ SwitchTakesEffect]_vars

\* Thread 1 has switched to the English model on a text with triggers of both
\* languages, and thread 2 has since decoded an utterance on that model.
C28_Witness ==
    /\ sh_pc[1] = "returned"
    /\ sh_call[1].text = << <<"switch to vietnamese", "switch to english">> >>
    /\ sh_call[1].new_model = DirOf("english")
    /\ sh_call[1].result = sh_call[1].text
    /\ sh_model = DirOf("english") /\ sh_current_model_dir = DirOf("english")
    /\ sh_pc[2] = "decoded"
    /\ sh_call[2].decoder = <<DirOf("english")>>

\* The sentence type and content type of each unit.
Kinds(units) == [i \in 1..Len(units) |-> <<units[i].sentence_type, units[i].content_type>>]
FullReply == << <<"FIRST", "ACTION">>, <<"MIDDLE", "TEXT">>, <<"MIDDLE", "FILE">>,
                <<"LAST", "ACTION">> >>
BareReply == << <<"MIDDLE", "TEXT">>, <<"MIDDLE", "FILE">> >>
IsPrefix(a, b) == Len(a) <= Len(b) /\ a = SubSeq(b, 1, Len(a))

\* C29: the units one play_local_music has put carry one sentence id and
\* are, in order, [FIRST, TEXT, FILE, LAST] or, without markers, [TEXT, FILE]:
\* FIRST before the content, LAST after it, FIRST if and only if LAST; the
\* text unit carries the prompt and the file unit the music path.
C29_ReplyUnitsInOrder ==
    \A k \in MusicTasks :
       LET u == q_log[k] IN
       /\ \A i \in 1..Len(u) : u[i].sentence_id = u[1].sentence_id
       /\ IsPrefix(Kinds(u), FullReply) \/ IsPrefix(Kinds(u), BareReply)
       /\ q_pc[k] = "done" => Kinds(u) \in {<< >>, FullReply, BareReply}
       /\ \A i \in 1..Len(u) :
             /\ u[i].content_type = "TEXT" => u[i].content_detail = q_local[k].text
             /\ u[i].content_type = "FILE" => u[i].content_file = q_local[k].music_path

\* Two replies with markers, the second put after the connection had begun
\* its next sentence.
C29_Witness ==
    /\ q_pc[1] = "done" /\ q_pc[2] = "done"
    /\ Kinds(q_log[1]) = FullReply /\ Kinds(q_log[2]) = FullReply
    /\ q_log[1][1].sentence_id = 1 /\ q_log[2][4].sentence_id = 2

\* The units of a sequence of units that carry sentence id S.
OfSentence(units, S) == SelectSeq(units, LAMBDA u : u.sentence_id = S)

SwitchFails(t) == sh_pc[t] = "loading" /\ sh_pc'[t] = "returned"

\* C35 as stated: a switch_model whose load fails leaves the active handle,
\* tokens_path and current_model_dir as they were before the call.
C35_FailedSwitchChangesNothing ==
    [][\A t \in Threads :
          SwitchFails(t) => UNCHANGED <<sh_model, sh_tokens_path, sh_current_model_dir>>]_vars

\* What holds of a failed switch: the handle and current_model_dir are kept.
C35_FailedSwitchKeepsHandleAndDir ==
    [][\A t \in Threads :
          SwitchFails(t) => UNCHANGED <<sh_model, sh_current_model_dir>>]_vars

\* Thread t waits for model_lock.
WaitsForLock(t) == sh_pc[t] \in {"acquire", "switch"}

\* A thread that asks for model_lock does not hold it (switch_model is
\* called after the section of speech_to_text), and the lock is held only by
\* a thread inside a with block.
LockHeldInsideWithOnly ==
    \A t \in Threads :
       /\ WaitsForLock(t) => sh_lock # t
       /\ sh_lock = t => (InSection(t) \/ InSwitch(t))
       /\ sh_lock \in Threads \cup {0}

\* C34 as stated: no thread asks for the lock it holds, every acquisition is
\* released, and with fairly scheduled threads every thread that waits for
\* the lock gets it.
C34_NoDeadlockOnModelLock ==
    /\ []LockHeldInsideWithOnly
    /\ \A t \in Threads : WaitsForLock(t) ~> (sh_lock = t)

\* C34, amended: no thread asks for the lock it holds, every holder releases
\* the lock, by normal and by exceptional exit, and a lock that is free while
\* a thread waits for it is taken; which waiter takes it is not said.
C34_LockIsReleasedAndTaken ==
    /\ []LockHeldInsideWithOnly
    /\ \A t \in Threads : (sh_lock = t) ~> (sh_lock = 0)
    /\ \A t \in Threads : (WaitsForLock(t) /\ sh_lock = 0) ~> (sh_lock # 0)

\* Thread 1 waits to transcribe while thread 2 loads a model under the lock.
C34_Witness ==
    /\ sh_pc[1] = "acquire"
    /\ sh_pc[2] = "loading"
    /\ sh_lock = 2

\* A step in which _refresh_token raises, at line 125 or at lines 137-143.
RefreshFails(c) == pc[c] \in {"refresh_token", "refresh_expire"} /\ pc'[c] = "done"

\* C33: a refresh that fails leaves the pair (token, expire_time) as it was
\* when the refresh began: never a new or null token with the old expiry,
\* never a new expiry with a null token.
C33_FailedRefreshKeepsThePair ==
    [][\A c \in Calls :
          RefreshFails(c) =>
              /\ token' = call[c].tokAtCheck
              /\ expire_time' = expire_time]_vars


\* C31: with delete_audio_file set, once speech_to_text has returned no file
\* written for an utterance is left on the disk (socket-stream variants and
\* whisper_ws).
C31_NoFileLeftAfterReturn ==
    (s_delete_audio_file /\ s_pc = "idle") => s_disk = {}

\* The same for the variants that assign file_path.
C31_AssigningVariantsLeaveNoFile ==
    (s_delete_audio_file /\ s_pc = "idle" /\ s_variant # "shepra_streaming_online") => s_disk = {}

\* The same for whisper.py.
C31_WhisperLeavesNoFile ==
    (w_delete_audio_file /\ w_pc \in {"idle", "done"}) => w_disk = {}

\* Division rounding up.
CeilDiv(a, b) == (a + b - 1) \div b

RECURSIVE Concat(_)
Concat(frames) == IF frames = << >> THEN << >> ELSE Head(frames) \o Concat(Tail(frames))

\* C36: for frame_bytes >= 1 process_pcm_frames yields ceil(len / frame_bytes)
\* frames, each frame_bytes long; joined they are the PCM followed by fewer
\* than frame_bytes zero bytes; an empty buffer yields no frame, and only the
\* last frame is padded.
C36_FramesCoverPcmWithZeroPadding ==
    LET fb == frame_bytes(g_cfg, DefaultFrameMs)
        n == Len(g_frames)
    IN (g_pc = "exhausted" /\ fb >= 1) =>
         /\ n = CeilDiv(Len(g_pcm), fb)
         /\ \A k \in 1..n : Len(g_frames[k]) = fb
         /\ n * fb - Len(g_pcm) \in 0..(fb - 1)
         /\ Concat(g_frames) = g_pcm \o Zeros(n * fb - Len(g_pcm))
         /\ g_pcm = << >> => g_frames = << >>
         /\ \A k \in 1..(n - 1) : g_frames[k] = SubSeq(g_pcm, (k - 1) * fb + 1, k * fb)

\* Two frames, the last one padded, with a zero byte of the audio in it.
C36_Witness ==
    /\ g_pc = "exhausted"
    /\ Len(g_frames) = 2
    /\ Len(g_pcm) % frame_bytes(g_cfg, DefaultFrameMs) # 0
    /\ g_pcm[Len(g_pcm)] = 0

\* The attempts of a call that failed, as the warnings of line 131 count them.
FailedAttempts(lines) == Len(SelectSeq(lines, LAMBDA l : l = "warning: generation failed"))

RECURSIVE StripThink(_)
StripThink(text) ==
    IF ~In(OpenTag, text) THEN text
    ELSE Before(OpenTag, text) \o
         (IF In(CloseTag, After(OpenTag, text))
          THEN StripThink(After(CloseTag, After(OpenTag, text)))
          ELSE << >>)

\* The strings among what was yielded, in order.
RECURSIVE YieldedStrings(_)
YieldedStrings(yielded) ==
    IF yielded = << >> THEN << >>
    ELSE Head(yielded).content \o YieldedStrings(Tail(yielded))

\* C38: however the output is cut into chunks, _stream_chunks ends and the
\* strings it yielded, joined, are the output without its think blocks (of a
\* stream none of whose chunks was taken as tool calls, the content of which
\* is skipped).
C38_YieldsOutputWithoutThinkBlocks ==
    /\ o_pc # "hung"
    /\ (o_pc = "done" /\ \A i \in DOMAIN o_yielded : o_yielded[i] # YieldTools)
          => Concat(YieldedStrings(o_yielded)) = StripThink(o_text)

\* The number of "/no_think " prefixes a content begins with.
RECURSIVE Prefixes(_)
Prefixes(content) ==
    IF content # << >> /\ Head(content) = "/no_think " THEN 1 + Prefixes(Tail(content)) ELSE 0

\* C39: with a qwen3 model the caller's dialogue is as the caller wrote it
\* after any number of calls, and the last user message of a request carries
\* the prefix exactly once.
C39_DialogueKeptAndPrefixedOnce ==
    /\ o_heap = o_first
    /\ (o_is_qwen3 /\ o_sent # << >> /\ LastUser(o_sent) # 0)
          => Prefixes(o_sent[LastUser(o_sent)].content) = 1

\* C32: a call whose key is cached returns the stored value without asking
\* the model; what is stored under a key is a text that an uncached call for
\* the key returned; an answer that does not parse returns continue_chat and
\* stores nothing.
C32_CacheHoldsWhatUncachedCallsReturned ==
    /\ i_last.hit => (i_last.value = Get(i_cache, i_last.key) /\ ~i_last.llm_called)
    /\ i_last.parse = "error" => (i_last.value = ContinueChat /\ ~i_last.stored)
    /\ \A e \in i_cache : e \in i_returned

\* The first two parts, and: what is stored is what json.loads accepted.
C32_HitReturnsStoredAndFailureStoresNothing ==
    /\ i_last.hit => (i_last.value = Get(i_cache, i_last.key) /\ ~i_last.llm_called)
    /\ i_last.parse = "error" => (i_last.value = ContinueChat /\ ~i_last.stored)
    /\ \A e \in i_cache : Parse(e.value) # "error"

\* C40: the key is injective on the pair (device_id, text): a call is answered
\* from the cache only with what a call of the same device with the same
\* text stored, so no entry is shared across devices or across texts.
C40_NoSharingAcrossDevicesOrTexts ==
    i_last.hit =>
        [key |-> i_last.key, device |-> i_last.device, text |-> i_last.text] \in i_origin

====
